---- MODULE Spec2Model ----
(***************************************************************************)
(* Cuepid: the retrieval-augmented generation pipeline.                    *)
(*                                                                         *)
(*   lib/vectorstore  (src/unnamed/part_008, lines 225-379)                *)
(*   lib/diverseRAG   (src/unnamed/part_008, lines 381-427)                *)
(*   lib/bookRAG      (src/unnamed/part_007, lines 90-201)                 *)
(*   api/chat         (src/app/api/chat/route.ts)                          *)
(*   api/vector/init, api/vector/search (src/unnamed/part_010, part_011)   *)
(*                                                                         *)
(* An embedding is opaque: the model fixes one query vector and stores     *)
(* with every index entry its similarity to that query (score).  A text is *)
(* a sequence of one-character strings; fixed template text of the source  *)
(* is one element holding the whole literal.                               *)
(***************************************************************************)
EXTENDS Integers, Sequences, FiniteSets, TLC

VARIABLES
    \* ---- lib/vectorstore: module-level state and the files on disk
    conversationIndex,  \* cached handle (part_008:233)
    bookIndex,          \* cached handle (part_008:234)
    disk,               \* index name -> [created, items]: the backing storage
    \* ---- the calls in flight: one frame per caller
    procs,
    \* ---- history: createIndex calls completed per index; an init call
    \* ---- has answered 200 in this process
    createCount, initOK,
    \* ---- lib/diverseRAG: the locals of retrieveDiverseBookKnowledge
    topK, results, bookGroups, books, bookIdx, diverseResults,
    \* ---- lib/rate-limit: the module-level list of request times, and the
    \* ---- clock (Date.now(), ms)
    requests, now,
    \* ---- api/chat: the request body, the locals of POST and its response
    body, systemPrompt, rag, attempt, response,
    \* ---- history of api/chat: the prompt handed to queryWithBookKnowledge,
    \* ---- the prompts the chat model was asked with, the waits between tries
    basePrompt, modelPrompts, delays,
    \* ---- scripts/importBook: main's chunks and counter, where main is, the
    \* ---- exit code of the process, and the history of the runs
    chunks, imported, mainPc, exitCode, runs,
    \* ---- the argument and the result of a function applied on its own
    arg, out

vars == << conversationIndex, bookIndex, disk, procs, createCount, initOK,
           topK, results, bookGroups, books, bookIdx, diverseResults,
           requests, now,
           body, systemPrompt, rag, attempt, response,
           basePrompt, modelPrompts, delays,
           chunks, imported, mainPc, exitCode, runs, arg, out >>

indexVars   == << conversationIndex, bookIndex, disk, createCount, initOK >>
diverseVars == << topK, results, bookGroups, books, bookIdx, diverseResults >>
chatVars    == << requests, now, body, systemPrompt, rag, attempt, response,
                  basePrompt, modelPrompts, delays >>
importVars  == << chunks, imported, mainPc, exitCode, runs >>
fnVars      == << arg, out >>
restVars    == << importVars, fnVars >>
callerVars  == << diverseVars, chatVars, restVars >>

(***************************************************************************)
(* Bounds of the model.                                                    *)
(***************************************************************************)
MaxCorpus == 4   \* entries of the book index in the diverse-retrieval runs
MaxTopK   == 3   \* largest topK asked of retrieveDiverseBookKnowledge
MaxItems  == 1   \* entries stored per index by the concurrent callers
MaxLimit  == 2   \* largest limit asked of the search endpoint
MaxConversations == 3   \* entries of the conversation index, one caller
MaxBookItems     == 2   \* entries of the book index, one caller

Books  == {"A", "B", "C"}
Scores == {1, 2}   \* similarities to the query

(***************************************************************************)
(* Sequence helpers.                                                       *)
(***************************************************************************)
Min(a, b) == IF a <= b THEN a ELSE b

Range(s) == {s[i] : i \in 1..Len(s)}

\* Array.prototype.slice(0, n)
Take(s, n) == SubSeq(s, 1, Min(n, Len(s)))

\* Array.prototype.splice(i, 1) on a 0-based position
RemoveAt(s, i) == SubSeq(s, 1, i) \o SubSeq(s, i + 2, Len(s))

Reverse(s) == [i \in 1..Len(s) |-> s[Len(s) + 1 - i]]

IsDescending(s) == \A i \in 1..(Len(s) - 1) : s[i].score >= s[i + 1].score

(***************************************************************************)
(* The vector index (vectra LocalIndex).                                   *)
(***************************************************************************)
Null == [path |-> "", obj |-> ""]

IndexNames == {"conversations", "books"}

\* LocalIndex.queryItems(vector, k): the k entries nearest to the query,
\* highest similarity first; entries of equal similarity keep insertion order.
RECURSIVE InsertByScore(_, _)
InsertByScore(sorted, e) ==
    IF sorted = << >> \/ sorted[Len(sorted)].score >= e.score
    THEN Append(sorted, e)
    ELSE Append(InsertByScore(SubSeq(sorted, 1, Len(sorted) - 1), e),
                sorted[Len(sorted)])

RECURSIVE SortByScore(_)
SortByScore(s) ==
    IF s = << >> THEN << >>
    ELSE InsertByScore(SortByScore(SubSeq(s, 1, Len(s) - 1)), s[Len(s)])

queryItems_OneMore(items, k) == Take(SortByScore(items), k + 1)

queryItems(items, k) == Take(SortByScore(items), k)

(***************************************************************************)
(* lib/vectorstore: searchBookContent, after the index was opened and the  *)
(* query embedded.  A result keeps the entry's metadata and score; ref is  *)
(* the identity of the result object (its position in the array returned). *)
(***************************************************************************)
searchBookContent(items, limit) ==
    LET raw == queryItems(items, limit)
    IN  [i \in 1..Len(raw) |->
            [ref |-> i, item |-> raw[i].metadata, score |-> raw[i].score]]

(***************************************************************************)
(* lib/vectorstore: searchConversations, after the index was opened and    *)
(* the query embedded.  userId "" is the omitted argument.                 *)
(***************************************************************************)
\* the limit handed to index.queryItems
ConversationFetch(limit) == limit * 2

filteredResults_Reversed(raw, userId) ==
    LET kept == IF userId # ""
                THEN SelectSeq(raw, LAMBDA r : r.metadata.userId = userId)
                ELSE raw
    IN  [i \in 1..Len(kept) |-> kept[Len(kept) + 1 - i]]

\* the user filter of the fetched results
filteredResults(raw, userId) ==
    IF userId # ""
    THEN SelectSeq(raw, LAMBDA r : r.metadata.userId = userId)
    ELSE raw

searchConversations(items, limit, userId) ==
    LET raw  == queryItems(items, ConversationFetch(limit))
        kept == Take(filteredResults(raw, userId), limit)
    IN  [i \in 1..Len(kept) |->
            [ref |-> i, item |-> kept[i].metadata, score |-> kept[i].score]]

(***************************************************************************)
(* The calls in flight.  A frame is one caller's position in one call:     *)
(*   op      the entry point called                                        *)
(*   pc      where the call is suspended (each await is one step)          *)
(*   idx     the index being opened or used                                *)
(*   handle  what getConversationIndex / getBookIndex returned to it       *)
(*   ret, count  what the call returned; the count an endpoint reports    *)
(*   status  how the call ended: an HTTP status for an endpoint,           *)
(*           "returned" or "threw" for a library call                      *)
(*   err     why it threw: "storage" (the file system failed), "exists"    *)
(*           (createIndex on an index that exists), "missing" (insert or   *)
(*           query on an index that does not exist), "embedding"           *)
(*   after200, mark  history: the call started after an init call had      *)
(*           answered 200; the storage existed when the handle was handed  *)
(*           over                                                          *)
(***************************************************************************)
Procs == {"p1", "p2"}

\* the caller, when calls come one at a time
Caller == CHOOSE p \in Procs : TRUE

NoEntry == [metadata |-> [none |-> TRUE], score |-> 0]

IdleFrame ==
    [op |-> "none", pc |-> "idle", idx |-> "", handle |-> Null, limit |-> 0,
     userId |-> "", entry |-> NoEntry, raw |-> << >>, ret |-> << >>,
     count |-> 0, status |-> "", err |-> "", after200 |-> FALSE, mark |-> FALSE]

Endpoints == {"init", "searchBook", "searchConversation", "chat"}

CacheOf(name) == IF name = "conversations" THEN conversationIndex ELSE bookIndex

indexPath_Shared(getter) == "conversations"

\* the directory a getter opens: path.join(cwd, VECTOR_STORAGE_PATH, <name>)
indexPath(getter) == IF getter = "getConversationIndex" THEN "conversations" ELSE "books"

\* the getter an entry point calls first
FirstIndex(op) ==
    IF op \in {"init", "storeConversationVector", "searchConversation", "getVectorStats"}
    THEN indexPath("getConversationIndex")
    ELSE indexPath("getBookIndex")

\* an exception leaves the call: the endpoints catch it and answer 500
Thrown(f, cause) ==
    [f EXCEPT !.pc = "done", !.err = cause,
              !.status = IF f.op \in Endpoints THEN "500" ELSE "threw"]

\* the getter returned handle h to the caller f, which runs to its next await
AfterGet(f, h) ==
    LET g == [f EXCEPT !.handle = h, !.mark = disk[h.path].created]
    IN  IF f.op \in {"init", "getVectorStats"}
        THEN IF f.idx = indexPath("getConversationIndex")
             THEN [g EXCEPT !.idx = indexPath("getBookIndex"), !.pc = "get"]
             ELSE IF f.op = "init"
                  THEN [g EXCEPT !.pc = "done", !.status = "200"]
                  ELSE [g EXCEPT !.pc = "list"]
        ELSE [g EXCEPT !.pc = "embed"]

CacheHit_Never(cache) == FALSE

\* `if (bookIndex) return bookIndex;`: the cached handle is returned as it is
CacheHit(cache) == cache # Null

\* `if (!(await index.isIndexCreated()))`: createIndex is called
NeedsCreate(isCreated) == ~isCreated

SetCache(name, h) ==
    /\ conversationIndex' = IF name = "conversations" THEN h ELSE conversationIndex
    /\ bookIndex' = IF name = "books" THEN h ELSE bookIndex

\* getConversationIndex / getBookIndex up to the first await
GetCheck(p) ==
    LET f == procs[p] IN
    /\ f.pc = "get"
    /\ IF CacheHit(CacheOf(f.idx))
       THEN /\ procs' = [procs EXCEPT ![p] = AfterGet(f, CacheOf(f.idx))]
            /\ UNCHANGED << conversationIndex, bookIndex >>
       ELSE /\ SetCache(f.idx, [path |-> f.idx, obj |-> p])
            /\ procs' = [procs EXCEPT ![p].pc = "isCreated"]
    /\ UNCHANGED << disk, createCount, initOK, callerVars >>

\* isIndexCreated() resolves
GetIsCreated(p) ==
    LET f == procs[p] IN
    /\ f.pc = "isCreated"
    /\ procs' = [procs EXCEPT ![p] =
                    IF NeedsCreate(disk[f.idx].created)
                    THEN [f EXCEPT !.pc = "create"]
                    ELSE AfterGet(f, CacheOf(f.idx))]
    /\ UNCHANGED << indexVars, callerVars >>

\* createIndex() resolves: the storage exists and is empty.  vectra refuses
\* to create an index that exists.
GetCreate(p) ==
    LET f == procs[p] IN
    /\ f.pc = "create"
    /\ IF disk[f.idx].created
       THEN /\ procs' = [procs EXCEPT ![p] = Thrown(f, "exists")]
            /\ UNCHANGED << disk, createCount >>
       ELSE /\ disk' = [disk EXCEPT ![f.idx] = [created |-> TRUE, items |-> << >>]]
            /\ createCount' = [createCount EXCEPT ![f.idx] = @ + 1]
            /\ procs' = [procs EXCEPT ![p] =
                    [AfterGet(f, CacheOf(f.idx)) EXCEPT !.mark = TRUE]]
    /\ UNCHANGED << conversationIndex, bookIndex, initOK, callerVars >>

\* isIndexCreated() or createIndex() rejects (storage error)
GetThrows(p) ==
    LET f == procs[p] IN
    /\ f.pc \in {"isCreated", "create"}
    /\ procs' = [procs EXCEPT ![p] = Thrown(f, "storage")]
    /\ UNCHANGED << indexVars, callerVars >>

\* generateEmbedding() resolves
Embed(p) ==
    LET f == procs[p] IN
    /\ f.pc = "embed"
    /\ procs' = [procs EXCEPT ![p].pc =
                    IF f.op \in {"storeBookChunk", "storeConversationVector"}
                    THEN "insert" ELSE "query"]
    /\ UNCHANGED << indexVars, callerVars >>

\* generateEmbedding() rejects (no credential, provider error)
EmbedThrows(p) ==
    LET f == procs[p] IN
    /\ f.pc = "embed"
    /\ procs' = [procs EXCEPT ![p] = Thrown(f, "embedding")]
    /\ UNCHANGED << indexVars, callerVars >>

\* index.insertItem() resolves; vectra rejects when the index does not exist
Insert(p) ==
    LET f == procs[p] IN
    /\ f.pc = "insert"
    /\ IF disk[f.handle.path].created
       THEN /\ disk' = [disk EXCEPT ![f.handle.path].items = Append(@, f.entry)]
            /\ procs' = [procs EXCEPT ![p].pc = "done", ![p].status = "returned"]
       ELSE /\ procs' = [procs EXCEPT ![p] = Thrown(f, "missing")]
            /\ UNCHANGED disk
    /\ UNCHANGED << conversationIndex, bookIndex, createCount, initOK, callerVars >>

\* index.insertItem(), index.queryItems() or index.listItems() rejects
\* (storage error)
IndexThrows(p) ==
    LET f == procs[p] IN
    /\ f.pc \in {"insert", "query", "list"}
    /\ procs' = [procs EXCEPT ![p] = Thrown(f, "storage")]
    /\ UNCHANGED << indexVars, callerVars >>

\* the results an entry point makes of the index's answer
SearchResults(f, items) ==
    IF f.op = "searchConversation"
    THEN searchConversations(items, f.limit, f.userId)
    ELSE searchBookContent(items, f.limit)

\* what the entry point asks of index.queryItems
Fetch(f) == IF f.op = "searchConversation" THEN ConversationFetch(f.limit) ELSE f.limit

\* index.queryItems() resolves for the search endpoint, which answers
\* { results, count: results.length }
Query(p) ==
    LET f == procs[p] IN
    /\ f.pc = "query"
    /\ f.op \in {"searchBook", "searchConversation"}
    /\ procs' = [procs EXCEPT ![p] =
            IF disk[f.handle.path].created
            THEN [f EXCEPT !.pc = "done", !.status = "200",
                           !.raw = queryItems(disk[f.handle.path].items, Fetch(f)),
                           !.ret = SearchResults(f, disk[f.handle.path].items),
                           !.count = Len(SearchResults(f, disk[f.handle.path].items))]
            ELSE Thrown(f, "missing")]
    /\ UNCHANGED << indexVars, callerVars >>

\* the caller takes the answer
Finish(p) ==
    /\ procs[p].pc = "done"
    /\ procs' = [procs EXCEPT ![p] = IdleFrame]
    /\ initOK' = (initOK \/ (procs[p].op = "init" /\ procs[p].status = "200"))
    /\ UNCHANGED << conversationIndex, bookIndex, disk, createCount, callerVars >>

\* the server process ends and a new one starts: the module state is fresh,
\* the files stay
Restart ==
    /\ conversationIndex' = Null
    /\ bookIndex' = Null
    /\ procs' = [p \in Procs |-> IdleFrame]
    /\ initOK' = FALSE
    /\ UNCHANGED << disk, createCount, callerVars >>

Call(p, op) ==
    [IdleFrame EXCEPT !.op = op, !.pc = "get", !.idx = FirstIndex(op),
                      !.after200 = initOK]

\* POST /api/vector/init
StartInit(p) ==
    /\ procs[p].pc = "idle"
    /\ procs' = [procs EXCEPT ![p] = Call(p, "init")]
    /\ UNCHANGED << indexVars, callerVars >>

\* the entry storeBookChunk inserts: { vector, metadata: item }
BookEntry(bookTitle, content, score) ==
    [metadata |-> [bookTitle |-> bookTitle, content |-> content, chapterTitle |-> ""],
     score |-> score]

\* the entry storeConversationVector inserts
ConversationEntry(conversationId, userId, score) ==
    [metadata |-> [conversationId |-> conversationId, userId |-> userId],
     score |-> score]

Users == {"u1", "u2"}

\* storeBookChunk(bookTitle, content), the index holding fewer than max
StartStoreBook(p, scores, max) ==
    /\ procs[p].pc = "idle"
    /\ Len(disk["books"].items) < max
    /\ \E s \in scores :
         procs' = [procs EXCEPT ![p] =
            [Call(p, "storeBookChunk") EXCEPT
                !.entry = BookEntry("A", << "t", "e", "x", "t" >>, s)]]
    /\ UNCHANGED << indexVars, callerVars >>

\* storeConversationVector(conversationId, userId, summary)
StartStoreConversation(p, users, scores, max) ==
    /\ procs[p].pc = "idle"
    /\ Len(disk["conversations"].items) < max
    /\ \E u \in users, s \in scores :
         procs' = [procs EXCEPT ![p] =
            [Call(p, "storeConversationVector") EXCEPT
                !.entry = ConversationEntry("c", u, s)]]
    /\ UNCHANGED << indexVars, callerVars >>

\* POST /api/vector/search { query, type, limit, userId }; a request
\* without a query string is answered 400
StartSearch(p, limits, users) ==
    /\ procs[p].pc = "idle"
    /\ \E type \in {"book", "conversation"}, limit \in limits, userId \in users :
         \/ procs' = [procs EXCEPT ![p] =
               [Call(p, IF type = "book" THEN "searchBook" ELSE "searchConversation")
                   EXCEPT !.limit = limit, !.userId = userId]]
         \/ procs' = [procs EXCEPT ![p] =
               [IdleFrame EXCEPT
                   !.op = IF type = "book" THEN "searchBook" ELSE "searchConversation",
                   !.pc = "done", !.status = "400",
                   !.limit = limit, !.userId = userId]]
    /\ UNCHANGED << indexVars, callerVars >>

NoBody == [scenarioId |-> "", gender |-> "", starter |-> FALSE]

NoRag == [called |-> FALSE, enhancedPrompt |-> << >>, sources |-> << >>,
          bookContext |-> << >>]

NoResponse == [ragUsed |-> FALSE, sourceCount |-> 0, topScore |-> 0, retryAfter |-> 0]

\* no caller is in retrieveDiverseBookKnowledge or in the chat handler
NoCaller ==
    /\ topK = 0
    /\ results = << >>
    /\ bookGroups = << >>
    /\ books = << >>
    /\ bookIdx = 0
    /\ diverseResults = << >>
    /\ requests = << >>
    /\ now = 0
    /\ body = NoBody
    /\ systemPrompt = << >>
    /\ rag = NoRag
    /\ attempt = 0
    /\ response = NoResponse
    /\ basePrompt = << >>
    /\ modelPrompts = << >>
    /\ delays = << >>
    /\ chunks = << >>
    /\ imported = 0
    /\ mainPc = "off"
    /\ exitCode = 0
    /\ runs = << >>
    /\ arg = << >>
    /\ out = << >>

FreshDisk == [n \in IndexNames |-> [created |-> FALSE, items |-> << >>]]

(***************************************************************************)
(* The index under concurrent callers, from a fresh process on a fresh     *)
(* disk.                                                                   *)
(***************************************************************************)
InitIndex ==
    /\ conversationIndex = Null
    /\ bookIndex = Null
    /\ disk = FreshDisk
    /\ procs = [p \in Procs |-> IdleFrame]
    /\ createCount = [n \in IndexNames |-> 0]
    /\ initOK = FALSE
    /\ NoCaller

NextIndex ==
    \/ Restart
    \/ \E p \in Procs :
        \/ StartInit(p)
        \/ StartStoreBook(p, {1}, MaxItems)
        \/ StartStoreConversation(p, {"u1"}, {1}, MaxItems)
        \/ StartSearch(p, {1}, {""})
        \/ GetCheck(p)
        \/ GetIsCreated(p)
        \/ GetCreate(p)
        \/ GetThrows(p)
        \/ Embed(p)
        \/ EmbedThrows(p)
        \/ Insert(p)
        \/ Query(p)
        \/ IndexThrows(p)
        \/ Finish(p)

SpecIndex == InitIndex /\ [][NextIndex]_vars

(***************************************************************************)
(* The index under one caller at a time: every call runs to its end before *)
(* the next starts.                                                        *)
(***************************************************************************)
NextStore ==
    \/ Restart
    \/ StartInit(Caller)
    \/ StartStoreBook(Caller, Scores, MaxBookItems)
    \/ StartStoreConversation(Caller, Users, Scores, MaxConversations)
    \/ StartSearch(Caller, 0..MaxLimit, Users \cup {""})
    \/ GetCheck(Caller)
    \/ GetIsCreated(Caller)
    \/ GetCreate(Caller)
    \/ GetThrows(Caller)
    \/ Embed(Caller)
    \/ EmbedThrows(Caller)
    \/ Insert(Caller)
    \/ Query(Caller)
    \/ IndexThrows(Caller)
    \/ Finish(Caller)

SpecStore == InitIndex /\ [][NextStore]_vars

(***************************************************************************)
(* Claims about the index.                                                 *)
(***************************************************************************)
Searches == {"searchBook", "searchConversation"}

Answered(f) == f.pc = "done" /\ f.status = "200" /\ f.op \in Searches

\* the results a are, in their order, entries of the index's answer b
RECURSIVE Embeds(_, _)
Embeds(a, b) ==
    IF a = << >> THEN TRUE
    ELSE IF b = << >> THEN FALSE
    ELSE IF Head(a).item = Head(b).metadata /\ Head(a).score = Head(b).score
         THEN Embeds(Tail(a), Tail(b))
         ELSE Embeds(a, Tail(b))

\* C6: searchBookContent and searchConversations return the index's results
\* in the order the index produced them, so an answer of the index in
\* descending score order gives search results in descending score order.
C6_SearchKeepsIndexOrder ==
    \A p \in Procs :
        Answered(procs[p]) =>
            /\ Embeds(procs[p].ret, procs[p].raw)
            /\ IsDescending(procs[p].raw) => IsDescending(procs[p].ret)

C6_Witness ==
    \E p \in Procs :
        /\ Answered(procs[p])
        /\ procs[p].op = "searchConversation"
        /\ procs[p].userId # ""
        /\ Len(procs[p].raw) > Len(procs[p].ret)
        /\ Len(procs[p].ret) = 2
        /\ procs[p].ret[1].score > procs[p].ret[2].score

\* the entries of the conversation index that userId owns
OwnedBy(items, userId) == SelectSeq(items, LAMBDA e : e.metadata.userId = userId)

\* C7: searchConversations with a userId returns only that user's records,
\* and they are the `limit` highest-scored of all the user's records in the
\* index: min(limit, number of the user's records) results.
C7_UserFilterBeforeLimit ==
    \A p \in Procs :
        LET f == procs[p]
            own == OwnedBy(disk["conversations"].items, f.userId)
            best == Take(SortByScore(own), f.limit)
        IN  (Answered(f) /\ f.op = "searchConversation" /\ f.userId # "") =>
                /\ \A i \in 1..Len(f.ret) : f.ret[i].item.userId = f.userId
                /\ Len(f.ret) = Min(f.limit, Len(own))
                /\ \A i \in 1..Len(f.ret) : f.ret[i].score = best[i].score

\* C8: concurrent calls of getConversationIndex (of getBookIndex) get the
\* same handle, and no call gets its handle before the index's storage
\* exists.
C8_ConcurrentOpenSafe ==
    \A p \in Procs :
        procs[p].handle # Null =>
            /\ procs[p].mark
            /\ \A q \in Procs :
                  procs[q].handle.path = procs[p].handle.path
                      => procs[q].handle = procs[p].handle

\* C9: no index is created twice; an init call made after an init call that
\* answered 200 performs no createIndex, leaves every stored entry in place
\* and answers 200.
C9_InitIdempotent ==
    [][ /\ \A n \in IndexNames : createCount'[n] <= 1
        /\ \A p \in Procs :
              (procs[p].op = "init" /\ procs[p].after200 /\ procs'[p] # procs[p]) =>
                  /\ createCount' = createCount
                  /\ disk' = disk
                  /\ procs'[p].pc = "done" => procs'[p].status = "200" ]_vars

C9_Witness ==
    \E p \in Procs :
        /\ procs[p].op = "init" /\ procs[p].after200
        /\ procs[p].pc = "done" /\ procs[p].status = "200"
        /\ \A n \in IndexNames : createCount[n] = 1 /\ disk[n].items # << >>

\* C29: when isIndexCreated or createIndex fails inside a getter, the cached
\* handle of that index is left unset; and whenever no getter is between
\* its check and its return, a cached handle refers to an index whose
\* storage exists.
C29_FailedOpenLeavesCacheUnset ==
    [][ /\ \A p \in Procs :
              ( procs[p].pc \in {"isCreated", "create"}
                /\ procs'[p].pc = "done" /\ procs'[p].err # "" ) =>
                    (IF procs[p].idx = "conversations"
                     THEN conversationIndex' ELSE bookIndex') = Null
        /\ (\A p \in Procs : procs'[p].pc \notin {"isCreated", "create"}) =>
              /\ conversationIndex' # Null => disk'["conversations"].created
              /\ bookIndex' # Null => disk'["books"].created ]_vars

\* C11: the search endpoint answers with at most `limit` results and with
\* count = the number of results; a book search over n entries answers
\* min(limit, n) results; a search of an index that exists and is empty is
\* answered 200 with no result and count 0.
C11_SearchCounts ==
    [][ \A p \in Procs :
          LET f == procs[p]
              g == procs'[p]
          IN  /\ Answered(g) =>
                    /\ g.count = Len(g.ret)
                    /\ Len(g.ret) <= g.limit
                    /\ g.op = "searchBook" =>
                          g.count = Min(g.limit, Len(disk'["books"].items))
              /\ ( /\ f.pc = "query" /\ f.op \in Searches
                   /\ disk[f.handle.path] = [created |-> TRUE, items |-> << >>]
                   /\ g.pc = "done" /\ g.err # "storage" ) =>
                    g.status = "200" /\ g.ret = << >> /\ g.count = 0 ]_vars

C11_Witness ==
    \E p \in Procs :
        /\ Answered(procs[p])
        /\ procs[p].op = "searchBook"
        /\ procs[p].limit = 1
        /\ Len(disk["books"].items) = 2
        /\ procs[p].count = 1

IsBookEntry(e) == DOMAIN e.metadata = {"bookTitle", "content", "chapterTitle"}
IsConversationEntry(e) == DOMAIN e.metadata = {"conversationId", "userId"}

\* the entries are where their store function puts them, and a search
\* answers with entries of its own index
Separate(d, ps) ==
    /\ \A i \in 1..Len(d["books"].items) : IsBookEntry(d["books"].items[i])
    /\ \A i \in 1..Len(d["conversations"].items) :
          IsConversationEntry(d["conversations"].items[i])
    /\ \A p \in Procs : \A i \in 1..Len(ps[p].ret) :
          /\ ps[p].op = "searchBook" =>
                \E j \in 1..Len(d["books"].items) :
                    d["books"].items[j].metadata = ps[p].ret[i].item
          /\ ps[p].op = "searchConversation" =>
                \E j \in 1..Len(d["conversations"].items) :
                    d["conversations"].items[j].metadata = ps[p].ret[i].item

\* C10: storeBookChunk changes only the book index and
\* storeConversationVector only the conversation index; searchBookContent
\* returns only entries storeBookChunk inserted and searchConversations
\* only entries storeConversationVector inserted.
C10_IndexesIsolated ==
    [][ /\ \A p \in Procs :
              /\ procs[p].op = "storeBookChunk" =>
                    disk'["conversations"] = disk["conversations"]
              /\ procs[p].op = "storeConversationVector" =>
                    disk'["books"] = disk["books"]
        /\ Separate(disk', procs') ]_vars

C10_Witness ==
    \E p \in Procs :
        /\ Answered(procs[p])
        /\ procs[p].op = "searchBook"
        /\ Len(procs[p].ret) = 2
        /\ Len(disk["conversations"].items) >= 2

(***************************************************************************)
(* lib/diverseRAG: retrieveDiverseBookKnowledge.                           *)
(***************************************************************************)
\* Map keys in insertion order: the titles in the order first met in results
RECURSIVE FirstSeen(_, _)
FirstSeen(rs, seen) ==
    IF rs = << >> THEN << >>
    ELSE LET t == Head(rs).item.bookTitle
         IN  IF t \in seen THEN FirstSeen(Tail(rs), seen)
             ELSE << t >> \o FirstSeen(Tail(rs), seen \cup {t})

GroupByTitle_Reversed(rs) ==
    [t \in Range(FirstSeen(rs, {})) |->
        Reverse(SelectSeq(rs, LAMBDA r : r.item.bookTitle = t))]

\* the Map built by the grouping loop: title -> its results, in results order
GroupByTitle(rs) ==
    [t \in Range(FirstSeen(rs, {})) |->
        SelectSeq(rs, LAMBDA r : r.item.bookTitle = t)]

\* const results = await searchBookContent(query, topK * 2)
DiverseFetch(k) == k * 2

LoopCond_OffByOne == Len(diverseResults) <= topK /\ Len(diverseResults) < Len(results)

\* the while condition
LoopCond == Len(diverseResults) < topK /\ Len(diverseResults) < Len(results)

\* retrieveDiverseBookKnowledge(query, topK) is called
StartDiverse(p, ks) ==
    /\ procs[p].pc = "idle"
    /\ procs' = [procs EXCEPT ![p] = Call(p, "retrieveDiverseBookKnowledge")]
    /\ topK' \in ks
    /\ results' = << >>
    /\ bookGroups' = << >>
    /\ books' = << >>
    /\ bookIdx' = 0
    /\ diverseResults' = << >>
    /\ UNCHANGED << indexVars, chatVars, restVars >>

\* searchBookContent resolves; the results are grouped by title and the
\* rotation starts at the first title
DiverseQuery(p) ==
    LET f == procs[p] IN
    /\ f.pc = "query"
    /\ f.op = "retrieveDiverseBookKnowledge"
    /\ IF disk[f.handle.path].created
       THEN LET rs == searchBookContent(disk[f.handle.path].items, DiverseFetch(topK))
            IN  /\ results' = rs
                /\ bookGroups' = GroupByTitle(rs)
                /\ books' = FirstSeen(rs, {})
                /\ bookIdx' = 0
                /\ diverseResults' = << >>
                /\ procs' = [procs EXCEPT ![p].pc = "loop"]
       ELSE /\ procs' = [procs EXCEPT ![p] = Thrown(f, "missing")]
            /\ UNCHANGED << results, bookGroups, books, bookIdx, diverseResults >>
    /\ UNCHANGED << indexVars, topK, chatVars, restVars >>

Rotation_FromLast(i, n) == (n - 1 + i) % n

\* the position of the rotation: bookIndex % books.length
Rotation(i, n) == i % n

\* one iteration of the while loop
DiverseStep(p) ==
    /\ procs[p].pc = "loop"
    /\ LoopCond
    /\ LET at          == Rotation(bookIdx, Len(books))
           currentBook == books[at + 1]
           bookResults == bookGroups[currentBook]
           picked      == bookResults # << >>
           rest        == IF picked THEN Tail(bookResults) ELSE bookResults
       IN  /\ diverseResults' = IF picked
                                THEN Append(diverseResults, Head(bookResults))
                                ELSE diverseResults
           /\ bookGroups' = [bookGroups EXCEPT ![currentBook] = rest]
           /\ IF rest = << >>
              THEN /\ books' = RemoveAt(books, at)
                   /\ bookIdx' = bookIdx
                   /\ procs' = IF books' = << >>
                               THEN [procs EXCEPT ![p].pc = "done",
                                                  ![p].status = "returned",
                                                  ![p].ret = diverseResults']
                               ELSE procs
              ELSE /\ books' = books
                   /\ bookIdx' = bookIdx + 1
                   /\ procs' = procs
    /\ UNCHANGED << indexVars, topK, results, chatVars, restVars >>

\* the while condition fails: return diverseResults
DiverseReturn(p) ==
    /\ procs[p].pc = "loop"
    /\ ~LoopCond
    /\ procs' = [procs EXCEPT ![p].pc = "done", ![p].status = "returned",
                              ![p].ret = diverseResults]
    /\ UNCHANGED << indexVars, diverseVars, chatVars, restVars >>

\* the steps of retrieveDiverseBookKnowledge and of what it calls
DiverseNext(p) ==
    \/ GetCheck(p)
    \/ GetIsCreated(p)
    \/ GetCreate(p)
    \/ GetThrows(p)
    \/ Embed(p)
    \/ EmbedThrows(p)
    \/ DiverseQuery(p)
    \/ IndexThrows(p)
    \/ DiverseStep(p)
    \/ DiverseReturn(p)

\* the book index as earlier imports left it
Corpora ==
    UNION { [1..n -> {BookEntry(t, << "t", "e", "x", "t" >>, sc) :
                         t \in Books, sc \in Scores}] : n \in 0..MaxCorpus }

InitDiverse ==
    /\ conversationIndex = Null
    /\ bookIndex = Null
    /\ \E items \in Corpora :
         disk \in { FreshDisk,
                    [FreshDisk EXCEPT !["books"] =
                        [created |-> TRUE, items |-> items]] }
    /\ procs = [p \in Procs |-> IdleFrame]
    /\ createCount = [n \in IndexNames |-> 0]
    /\ initOK = FALSE
    /\ NoCaller

NextDiverse ==
    \/ StartDiverse(Caller, 0..MaxTopK)
    \/ DiverseNext(Caller)

SpecDiverse == InitDiverse /\ [][NextDiverse]_vars

(***************************************************************************)
(* The corpus of three books: 20 chunks of A, 2 of B and 2 of C match the  *)
(* query, each with its own score; retrieveDiverseBookKnowledge(query, 5). *)
(***************************************************************************)
Scenario == [topK |-> 5, chunks |-> [A |-> 20, B |-> 2, C |-> 2]]

ScenarioSize == Scenario.chunks["A"] + Scenario.chunks["B"] + Scenario.chunks["C"]

\* the corpus in which B's chunks rank at b1, b2 and C's at c1, c2
Ranked(b1, b2, c1, c2) ==
    [i \in 1..ScenarioSize |->
        BookEntry(IF i \in {b1, b2} THEN "B" ELSE IF i \in {c1, c2} THEN "C" ELSE "A",
                  << "t", "e", "x", "t" >>,
                  ScenarioSize + 1 - i)]

InitCorpus ==
    /\ conversationIndex = Null
    /\ bookIndex = Null
    /\ \E b1, b2, c1, c2 \in 1..ScenarioSize :
         /\ b1 < b2 /\ c1 < c2 /\ {b1, b2} \cap {c1, c2} = {}
         /\ disk = [FreshDisk EXCEPT !["books"] =
                        [created |-> TRUE, items |-> Ranked(b1, b2, c1, c2)]]
    /\ procs = [p \in Procs |-> IdleFrame]
    /\ createCount = [n \in IndexNames |-> 0]
    /\ initOK = FALSE
    /\ NoCaller

NextCorpus ==
    \/ StartDiverse(Caller, {Scenario.topK})
    \/ GetCheck(Caller)
    \/ GetIsCreated(Caller)
    \/ Embed(Caller)
    \/ DiverseQuery(Caller)
    \/ DiverseStep(Caller)
    \/ DiverseReturn(Caller)

SpecCorpus == InitCorpus /\ [][NextCorpus]_vars

(***************************************************************************)
(* Claims about retrieveDiverseBookKnowledge.                              *)
(***************************************************************************)
Returned(f) ==
    f.op = "retrieveDiverseBookKnowledge" /\ f.pc = "done" /\ f.status = "returned"

FromBook(rs, t) == {i \in 1..Len(rs) : rs[i].item.bookTitle = t}

CeilDiv(a, b) == (a + b - 1) \div b

\* C3: with 20 chunks of A and 2 each of B and C matching,
\* retrieveDiverseBookKnowledge(query, 5) returns at most ceil(5/3)+1 = 3
\* chunks of any one book, whatever the ranking of the 24 chunks.
C3_AtMostThreePerBook ==
    \A p \in Procs :
        Returned(procs[p]) =>
            \A t \in Books :
                Cardinality(FromBook(procs[p].ret, t))
                    <= CeilDiv(topK, Cardinality(Books)) + 1

\* C4: retrieveDiverseBookKnowledge(query, k) terminates (every iteration
\* of its loop adds one result, and an iteration always finds a book that
\* has a result left) and returns exactly min(k, |R|) results, each an
\* element of the raw list R, none twice.
C4_ReturnsMinOfKAndRaw ==
    [][\A p \in Procs :
        /\ Returned(procs'[p]) =>
              /\ Len(procs'[p].ret) = Min(topK', Len(results'))
              /\ \A i \in 1..Len(procs'[p].ret) : procs'[p].ret[i] \in Range(results')
              /\ \A i, j \in 1..Len(procs'[p].ret) :
                    i # j => procs'[p].ret[i].ref # procs'[p].ret[j].ref
        /\ (procs[p].pc = "loop" /\ procs'[p].pc = "loop") =>
              Len(diverseResults') = Len(diverseResults) + 1
        /\ (procs'[p].pc = "loop" /\ LoopCond') =>
              /\ books' # << >>
              /\ \A i \in 1..Len(books') : bookGroups'[books'[i]] # << >> ]_vars

C4_Witness ==
    \E p \in Procs :
        /\ Returned(procs[p])
        /\ Len(procs[p].ret) = 3
        /\ Len(results) = 4
        /\ Cardinality({procs[p].ret[i].item.bookTitle : i \in 1..3}) = 2

\* C5: the results of one call of retrieveDiverseBookKnowledge are in
\* descending score order whenever the raw results of the index are.
C5_DiverseDescending ==
    \A p \in Procs :
        (Returned(procs[p]) /\ IsDescending(results)) => IsDescending(procs[p].ret)

\* the loop of retrieveDiverseBookKnowledge as a function of the grouped
\* raw results: groups, rotation bks, pointer idx, picked so far, topK k and
\* the number n of raw results
RECURSIVE diverseLoop(_, _, _, _, _, _)
diverseLoop(groups, bks, idx, picked, k, n) ==
    IF ~(Len(picked) < k /\ Len(picked) < n) THEN picked
    ELSE LET at          == Rotation(idx, Len(bks))
             currentBook == bks[at + 1]
             bookResults == groups[currentBook]
             taken       == IF bookResults # << >>
                            THEN Append(picked, Head(bookResults)) ELSE picked
             rest        == IF bookResults # << >> THEN Tail(bookResults) ELSE bookResults
             left        == [groups EXCEPT ![currentBook] = rest]
         IN  IF rest = << >>
             THEN IF Len(bks) = 1 THEN taken
                  ELSE diverseLoop(left, RemoveAt(bks, at), idx, taken, k, n)
             ELSE diverseLoop(left, bks, idx + 1, taken, k, n)

\* what retrieveDiverseBookKnowledge returns for the raw list rs and topK k
diverseOf(rs, k) == diverseLoop(GroupByTitle(rs), FirstSeen(rs, {}), 0, << >>, k, Len(rs))

\* the titles of a list and the first position of a title in it
Titles(rs) == {rs[i].item.bookTitle : i \in 1..Len(rs)}

FirstAt(rs, t) == CHOOSE i \in 1..Len(rs) :
                    /\ rs[i].item.bookTitle = t
                    /\ \A j \in 1..(i - 1) : rs[j].item.bookTitle # t

\* the references of the chunks of book t, in list order
RefsOf(rs, t) ==
    LET own == SelectSeq(rs, LAMBDA r : r.item.bookTitle = t)
    IN  [i \in 1..Len(own) |-> own[i].ref]

IsPrefix(s, t) == Len(s) <= Len(t) /\ s = SubSeq(t, 1, Len(s))

\* C18: when a pick empties the group of book X and X leaves the rotation
\* while the loop goes on, the next pick is taken from the book that
\* followed X in the rotation (the first one when X was the last).
C18_RotationSurvivesExhaustion ==
    [][ \A p \in Procs :
          ( /\ procs[p].pc = "loop" /\ procs'[p].pc = "loop"
            /\ Len(books') < Len(books)
            /\ LoopCond' ) =>
              books'[Rotation(bookIdx', Len(books')) + 1]
                = books[((Rotation(bookIdx, Len(books)) + 1) % Len(books)) + 1] ]_vars

\* C19: with B titles in the raw list, the i-th returned result, for
\* i <= min(topK, B), is the first (highest-scored) raw chunk of the i-th
\* title in order of first occurrence; and the returned list is a function
\* of the raw list and topK, so two calls given the same raw list return
\* the same sequence.
C19_FirstEncounterOrder ==
    \A p \in Procs :
        Returned(procs[p]) =>
            /\ \A i \in 1..Min(topK, Cardinality(Titles(results))) :
                 LET t == procs[p].ret[i].item.bookTitle IN
                 /\ procs[p].ret[i].ref = results[FirstAt(results, t)].ref
                 /\ Cardinality({u \in Titles(results) :
                        FirstAt(results, u) < FirstAt(results, t)}) = i - 1
            /\ procs[p].ret = diverseOf(results, topK)

\* three titles, the first one met not the first in the alphabet, and the
\* third result is the fourth raw chunk
C19_Witness ==
    \E p \in Procs :
        /\ Returned(procs[p])
        /\ topK = 3 /\ Len(results) = 4
        /\ Cardinality(Titles(results)) = 3
        /\ results[1].item.bookTitle = "C" /\ results[2].item.bookTitle = "C"
        /\ procs[p].ret[3].ref = results[4].ref

\* C20: at every point of the loop and at the return, the picked chunks of
\* any one book are the first raw chunks of that book, in raw order: no
\* chunk is returned before a higher-ranked raw chunk of its book.
C20_WithinBookOrderKept ==
    /\ \A t \in Books : IsPrefix(RefsOf(diverseResults, t), RefsOf(results, t))
    /\ \A p \in Procs : Returned(procs[p]) => procs[p].ret = diverseResults

\* two chunks of one book returned around a chunk of another book, the
\* better one first
C20_Witness ==
    \E p \in Procs :
        /\ Returned(procs[p])
        /\ Len(procs[p].ret) = 3
        /\ procs[p].ret[1].item.bookTitle = procs[p].ret[3].item.bookTitle
        /\ procs[p].ret[1].item.bookTitle # procs[p].ret[2].item.bookTitle
        /\ procs[p].ret[1].score > procs[p].ret[3].score


(***************************************************************************)
(* Text.  A string is the sequence of its characters; a fixed part of a    *)
(* template literal, which no code looks into, is one element.             *)
(***************************************************************************)
UpperCase == << "A", "B", "C", "D", "E", "F", "G", "H", "I", "J", "K", "L", "M",
                "N", "O", "P", "Q", "R", "S", "T", "U", "V", "W", "X", "Y", "Z" >>
LowerCase == << "a", "b", "c", "d", "e", "f", "g", "h", "i", "j", "k", "l", "m",
                "n", "o", "p", "q", "r", "s", "t", "u", "v", "w", "x", "y", "z" >>

UpperSet   == Range(UpperCase)              \* [A-Z]
LowerSet   == Range(LowerCase)              \* [a-z]
DigitSet   == {"0", "1", "2", "3", "4", "5", "6", "7", "8", "9"}   \* \d
WhiteSpace == {" ", "\n", "\t", "\r"}       \* \s
LineBreaks == {"\n", "\r"}                  \* what ^ follows under /m

\* String.prototype.toLowerCase
toLowerCase(t) ==
    [i \in 1..Len(t) |->
        IF t[i] \in UpperSet
        THEN LowerCase[CHOOSE k \in 1..Len(UpperCase) : UpperCase[k] = t[i]]
        ELSE t[i]]

\* String.prototype.includes
includes(t, sub) ==
    \E i \in 1..(Len(t) - Len(sub) + 1) : SubSeq(t, i, i + Len(sub) - 1) = sub

\* the first position from i on that holds no character of class (a greedy
\* class* from i ends before it)
Skip(t, i, class) ==
    IF i > Len(t) THEN i
    ELSE CHOOSE j \in i..(Len(t) + 1) :
            /\ j = Len(t) + 1 \/ t[j] \notin class
            /\ \A k \in i..(j - 1) : t[k] \in class

\* the last position up to i that holds no character of class
SkipBack(t, i, class) ==
    IF i < 1 THEN i
    ELSE CHOOSE j \in 0..i :
            /\ j = 0 \/ t[j] \notin class
            /\ \A k \in (j + 1)..i : t[k] \in class

\* String.prototype.trim
trim(t) == SubSeq(t, Skip(t, 1, WhiteSpace), SkipBack(t, Len(t), WhiteSpace))

\* /[A-Z][a-z]+,\s+[A-Z]\./ matched from position i: 0 when it does not
\* match, else the position after the match
NameEnd(t, i) ==
    LET b == Skip(t, i + 1, LowerSet)
        c == Skip(t, b + 1, WhiteSpace)
    IN  IF /\ i <= Len(t) /\ t[i] \in UpperSet
           /\ b > i + 1
           /\ b <= Len(t) /\ t[b] = ","
           /\ c > b + 1
           /\ c + 1 <= Len(t) /\ t[c] \in UpperSet /\ t[c + 1] = "."
        THEN c + 2
        ELSE 0

\* /^\s*[A-Z][a-z]+,\s+[A-Z]\.\s+[A-Z]\./m matches at the line start i
CitationAt(t, i) ==
    LET a == Skip(t, i, WhiteSpace)
        e == NameEnd(t, a)
        d == Skip(t, e, WhiteSpace)
    IN  /\ i = 1 \/ t[i - 1] \in LineBreaks
        /\ e # 0
        /\ d > e
        /\ d + 1 <= Len(t) /\ t[d] \in UpperSet /\ t[d + 1] = "."

\* content.match(/^\s*[A-Z][a-z]+,\s+[A-Z]\.\s+[A-Z]\./m) is not null
matchesCitation(t) == \E i \in 1..Len(t) : CitationAt(t, i)

\* content.match(/\d{3,}/g): the number of matches, 0 for null
pageNumbers(t) ==
    Cardinality({i \in 1..Len(t) :
        /\ t[i] \in DigitSet
        /\ i = 1 \/ t[i - 1] \notin DigitSet
        /\ Skip(t, i, DigitSet) - i >= 3})

\* content.match(/[A-Z][a-z]+,\s+[A-Z]\./g): the number of matches, 0 for
\* null.  Two matches never overlap (the only capital inside a match is
\* followed by "."), so every position that matches is counted.
nameMatches(t) == Cardinality({i \in 1..Len(t) : NameEnd(t, i) # 0})

\* Array.prototype.join
RECURSIVE Join(_, _)
Join(parts, sep) ==
    IF parts = << >> THEN << >>
    ELSE IF Len(parts) = 1 THEN parts[1]
    ELSE parts[1] \o sep \o Join(Tail(parts), sep)

(***************************************************************************)
(* lib/bookRAG: formatBookContext and queryWithBookKnowledge.  A score s   *)
(* stands for the similarity s / 100.                                      *)
(***************************************************************************)
MinContentLength == 200

MaxPageNumbers == 3

MaxNameMatches == 3

\* the callback of results.filter
IsValidResult(result) ==
    LET content         == toLowerCase(result.item.content)
        originalContent == result.item.content
    IN  /\ ~includes(content, << "r", "e", "f", "e", "r", "e", "n", "c", "e", "s" >>)
        /\ ~includes(content, << "b", "i", "b", "l", "i", "o", "g", "r", "a", "p", "h", "y" >>)
        /\ ~matchesCitation(content)
        /\ ~(pageNumbers(content) > MaxPageNumbers)
        /\ ~includes(content, << "c", "o", "p", "y", "r", "i", "g", "h", "t" >>)
        /\ ~includes(content, << "©" >>)
        /\ ~(Len(originalContent) < MinContentLength)
        /\ ~includes(content, << "c", "o", "l", "l", "e", "a", "g", "u", "e", "s", " ",
                                 "c", "r", "e", "a", "t", "e", "d" >>)
        /\ ~includes(content, << "s", "i", "m", "u", "l", "a", "t", "e", "d", " ",
                                 "p", "r", "i", "s", "o", "n" >>)
        /\ ~includes(content, << "p", "o", "i", "n", "t", "s", " ", "t", "o", " ",
                                 "t", "h", "e", " ", "s", "e", "c", "o", "n", "d", " ",
                                 "c", "o", "n", "c", "l", "u", "s", "i", "o", "n" >>)
        /\ ~(nameMatches(content) > MaxNameMatches)

validResults_All(found) == found

validResults(found) == SelectSeq(found, IsValidResult)

\* (result.score * 100).toFixed(1)
Relevance(score) == << ToString(score), ".", "0" >>

\* one element of formattedSources; index is 0-based
formattedSource(result, index) ==
    << "\nSource ", ToString(index + 1), " (Relevance: " >>
    \o Relevance(result.score)
    \o << "%)\nBook: ", result.item.bookTitle, "\n",
          IF result.item.chapterTitle # "" THEN result.item.chapterTitle
                                           ELSE "Chapter unknown",
          "\n\nContent:\n" >>
    \o trim(result.item.content)
    \o << "\n" >>

\* the template is trimmed: it starts and ends with a line break, which go
formatBookContext(found) ==
    LET valid == validResults(found)
    IN  IF found = << >> \/ valid = << >> THEN << >>
        ELSE << "The following information is from the book \"",
                valid[1].item.bookTitle, "\":\n\n" >>
             \o Join([i \in 1..Len(valid) |-> formattedSource(valid[i], i - 1)],
                     << "\n---\n" >>)
             \o << "\n\n---\n\nIMPORTANT: Answer the user's question ..." >>

queryWithBookKnowledge_ValidSources(prompt, bookResults) ==
    [called |-> TRUE,
     enhancedPrompt |-> IF Len(bookResults) = 0 THEN prompt
                        ELSE prompt \o << "\n", "\n" >> \o formatBookContext(bookResults),
     sources |-> validResults(bookResults),
     bookContext |-> formatBookContext(bookResults)]

\* queryWithBookKnowledge, after retrieveBookKnowledge resolved with bookResults
queryWithBookKnowledge(prompt, bookResults) ==
    IF Len(bookResults) = 0
    THEN [called |-> TRUE, enhancedPrompt |-> prompt, sources |-> << >>,
          bookContext |-> << >>]
    ELSE [called |-> TRUE,
          enhancedPrompt |-> prompt \o << "\n", "\n" >> \o formatBookContext(bookResults),
          sources |-> bookResults,
          bookContext |-> formatBookContext(bookResults)]

(***************************************************************************)
(* lib/rate-limit: checkRateLimit at time t with the list reqs.            *)
(***************************************************************************)
RPM_LIMIT == 5

WINDOW_MS == 60000

RECURSIVE Shift(_, _)
Shift(reqs, t) ==
    IF Len(reqs) > 0 /\ reqs[1] < t - WINDOW_MS THEN Shift(Tail(reqs), t) ELSE reqs

checkRateLimit_OneMore(reqs, t) ==
    LET kept == Shift(reqs, t)
    IN  IF Len(kept) > RPM_LIMIT
        THEN [allowed |-> FALSE, retryAfterMs |-> kept[1] + WINDOW_MS - t,
              requests |-> kept]
        ELSE [allowed |-> TRUE, retryAfterMs |-> 0, requests |-> Append(kept, t)]

checkRateLimit(reqs, t) ==
    LET kept == Shift(reqs, t)
    IN  IF Len(kept) >= RPM_LIMIT
        THEN [allowed |-> FALSE, retryAfterMs |-> kept[1] + WINDOW_MS - t,
              requests |-> kept]
        ELSE [allowed |-> TRUE, retryAfterMs |-> 0, requests |-> Append(kept, t)]

\* Math.ceil(ms / 1000)
CeilSeconds(ms) == (ms + 999) \div 1000


(***************************************************************************)
(* app/api/chat: POST.  The requests name a scenario or not, give a gender *)
(* and have a history that starts with the partner's opening line or not;  *)
(* they carry a last message and no weaknesses.  The frame's status is the *)
(* HTTP status of the answer, response its headers.                        *)
(***************************************************************************)
MAX_RETRIES == 3

ChatTopK == 3

MaxChunks == 2   \* entries of the book index under the chat handler
MaxTicks  == 1   \* times the clock advances

ScenarioIds == {"planning_a_date"}

ChatBodies ==
    { [scenarioId |-> "planning_a_date", gender |-> g, starter |-> st] :
        g \in {"male", "female"}, st \in BOOLEAN }
    \cup { [scenarioId |-> "unknown", gender |-> "female", starter |-> FALSE] }

\* scenario.systemPrompts[difficulty] + `\n\n${genderIdentity}`
ScenarioPrompt(b) ==
    << "scenarios.", b.scenarioId, ".systemPrompts.easy", "\n", "\n",
       IF b.gender = "male" THEN "You are male." ELSE "You are female." >>

\* the starter message folded into the prompt
WithStarter(prompt, b) ==
    IF b.starter
    THEN prompt \o << "\n\nYou already opened the conversation by saying: \"",
                      "messages[0].content", "\". Continue naturally from there." >>
    ELSE prompt

Delay_Linear(n) == (n + 1) * 2000

\* Math.pow(2, attempt) * 2000
Delay(n) == (2 ^ n) * 2000

\* POST up to the call of queryWithBookKnowledge
ChatStart(p) ==
    /\ procs[p].pc = "idle"
    /\ LET rl == checkRateLimit(requests, now) IN
        /\ requests' = rl.requests
        /\ IF ~rl.allowed
           THEN /\ procs' = [procs EXCEPT ![p] =
                        [IdleFrame EXCEPT !.op = "chat", !.pc = "done", !.status = "429"]]
                /\ response' = [NoResponse EXCEPT
                                    !.retryAfter = CeilSeconds(rl.retryAfterMs)]
                /\ body' = NoBody
                /\ systemPrompt' = << >>
                /\ basePrompt' = << >>
           ELSE \E b \in ChatBodies :
                /\ body' = b
                /\ response' = NoResponse
                /\ IF b.scenarioId \notin ScenarioIds
                   THEN /\ procs' = [procs EXCEPT ![p] =
                                [IdleFrame EXCEPT !.op = "chat", !.pc = "done",
                                                  !.status = "400"]]
                        /\ systemPrompt' = << >>
                        /\ basePrompt' = << >>
                   ELSE /\ procs' = [procs EXCEPT ![p] =
                                [Call(p, "chat") EXCEPT !.limit = ChatTopK]]
                        /\ systemPrompt' = ScenarioPrompt(b)
                        /\ basePrompt' = ScenarioPrompt(b)
    /\ rag' = NoRag
    /\ attempt' = 0
    /\ modelPrompts' = << >>
    /\ delays' = << >>
    /\ UNCHANGED << indexVars, diverseVars, restVars, now >>

\* index.queryItems() resolves for queryWithBookKnowledge; POST runs on to the
\* first sendMessageStream.  getChatModel throws without its credential.
ChatQuery(p) ==
    LET f == procs[p] IN
    /\ f.pc = "query"
    /\ f.op = "chat"
    /\ IF ~disk[f.handle.path].created
       THEN /\ procs' = [procs EXCEPT ![p] = Thrown(f, "missing")]
            /\ UNCHANGED << systemPrompt, rag, response >>
       ELSE LET bookResults == searchBookContent(disk[f.handle.path].items, f.limit)
                r           == queryWithBookKnowledge(systemPrompt, bookResults)
                ragUsed     == Len(r.sources) > 0
            IN  /\ rag' = r
                /\ systemPrompt' = WithStarter(r.enhancedPrompt, body)
                /\ response' = [ragUsed     |-> ragUsed,
                                sourceCount |-> Len(r.sources),
                                topScore    |-> IF ragUsed THEN r.sources[1].score ELSE 0,
                                retryAfter  |-> 0]
                /\ \E apiKey \in BOOLEAN :
                     procs' = [procs EXCEPT ![p] =
                        IF apiKey
                        THEN [f EXCEPT !.pc = "attempt", !.ret = bookResults]
                        ELSE Thrown([f EXCEPT !.ret = bookResults], "credential")]
    /\ UNCHANGED << indexVars, diverseVars, restVars, requests, now, body, attempt,
                    basePrompt, modelPrompts, delays >>

\* one turn of the retry loop: sendMessageStream resolves (the reply is
\* streamed), rejects with a rate-limit error (wait, then try again or give
\* up with 429) or rejects with another error (500)
ChatAttempt(p) ==
    LET f == procs[p] IN
    /\ f.pc = "attempt"
    /\ attempt < MAX_RETRIES
    /\ modelPrompts' = Append(modelPrompts, systemPrompt)
    /\ \E outcome \in {"stream", "rateLimited", "error"} :
        CASE outcome = "stream" ->
                /\ procs' = [procs EXCEPT ![p].pc = "done", ![p].status = "200"]
                /\ UNCHANGED << attempt, delays >>
          [] outcome = "rateLimited" ->
                /\ delays' = Append(delays, Delay(attempt))
                /\ attempt' = attempt + 1
                /\ procs' = IF attempt + 1 < MAX_RETRIES
                            THEN procs
                            ELSE [procs EXCEPT ![p].pc = "done", ![p].status = "429"]
          [] outcome = "error" ->
                /\ procs' = [procs EXCEPT ![p] = Thrown(f, "model")]
                /\ UNCHANGED << attempt, delays >>
    /\ UNCHANGED << indexVars, diverseVars, restVars, requests, now, body, systemPrompt, rag,
                    response, basePrompt >>

\* between two requests, time passes until the requests made so far are out
\* of the window (the handler reads the clock once, at its start)
Tick ==
    /\ \A p \in Procs : procs[p].pc = "idle"
    /\ now < MaxTicks * (WINDOW_MS + 1)
    /\ now' = now + (WINDOW_MS + 1)
    /\ UNCHANGED << indexVars, procs, diverseVars, restVars, requests, body, systemPrompt,
                    rag, attempt, response, basePrompt, modelPrompts, delays >>

(***************************************************************************)
(* The chat handler, one request at a time, over a book index that holds   *)
(* ordinary prose, reference pages and fragments, or was never created.    *)
(***************************************************************************)
Pad(n) == [i \in 1..n |-> "a"]

Prose == Pad(MinContentLength)

Fragment == Pad(MinContentLength - 1)

ReferencesPage ==
    << "R", "e", "f", "e", "r", "e", "n", "c", "e", "s", "\n" >> \o Pad(MinContentLength)

ChatEntries ==
    { BookEntry("A", Prose, 2), BookEntry("B", Prose, 1),
      BookEntry("A", Fragment, 1), BookEntry("B", ReferencesPage, 2) }

ChatCorpora == UNION { [1..n -> ChatEntries] : n \in 0..MaxChunks }

InitChat ==
    /\ conversationIndex = Null
    /\ bookIndex = Null
    /\ \/ disk = FreshDisk
       \/ \E items \in ChatCorpora :
            disk = [FreshDisk EXCEPT !["books"] = [created |-> TRUE, items |-> items]]
    /\ procs = [p \in Procs |-> IdleFrame]
    /\ createCount = [n \in IndexNames |-> IF disk[n].created THEN 1 ELSE 0]
    /\ initOK = FALSE
    /\ NoCaller

NextChat ==
    \/ Tick
    \/ ChatStart(Caller)
    \/ GetCheck(Caller)
    \/ GetIsCreated(Caller)
    \/ GetCreate(Caller)
    \/ GetThrows(Caller)
    \/ Embed(Caller)
    \/ EmbedThrows(Caller)
    \/ ChatQuery(Caller)
    \/ IndexThrows(Caller)
    \/ ChatAttempt(Caller)
    \/ Finish(Caller)

SpecChat == InitChat /\ [][NextChat]_vars

(***************************************************************************)
(* Claims about the chat handler and queryWithBookKnowledge.               *)
(***************************************************************************)
RetrievalErrors == {"storage", "exists", "missing", "embedding"}

\* the chat call of p has ended with an answer
ChatAnswered(f) == f.op = "chat" /\ f.pc = "done"

\* C1: when the retrieval step of a chat request fails (the index cannot be
\* opened or queried, or the embedding cannot be made), the request is
\* still answered with a streamed reply (200) of the chat model, which was
\* asked with the base system prompt.
C1_RetrievalFailureNotFatal ==
    \A p \in Procs :
        (ChatAnswered(procs[p]) /\ procs[p].err \in RetrievalErrors) =>
            /\ procs[p].status = "200"
            /\ modelPrompts # << >>
            /\ \A i \in 1..Len(modelPrompts) :
                    modelPrompts[i] = WithStarter(basePrompt, body)

\* C2: whenever the context block queryWithBookKnowledge made is empty, with
\* no result or with results the filter removed, the prompt it returns is
\* the prompt it was given.
C2_EmptyContextKeepsPrompt ==
    (rag.called /\ rag.bookContext = << >>) => rag.enhancedPrompt = basePrompt

\* C16: the sources list of queryWithBookKnowledge is the retrieved list,
\* unfiltered and in the same order; a streamed reply whose retrieval
\* returned at least one chunk reports X-RAG-Used true and the number of
\* retrieved chunks as X-RAG-Source-Count, also when the filter left no
\* chunk text for the prompt.
C16_SourcesAreTheRetrievedList ==
    \A p \in Procs :
        (procs[p].op = "chat" /\ rag.called) =>
            /\ rag.sources = procs[p].ret
            /\ (procs[p].status = "200" /\ Len(procs[p].ret) >= 1) =>
                    /\ response.ragUsed
                    /\ response.sourceCount = Len(procs[p].ret)

\* a streamed reply after a retrieval whose chunks the filter all removed
C16_Witness ==
    \E p \in Procs :
        /\ ChatAnswered(procs[p]) /\ procs[p].status = "200"
        /\ rag.called
        /\ Len(procs[p].ret) = 2
        /\ rag.bookContext = << >>
        /\ response.ragUsed /\ response.sourceCount = 2

\* C28: a chat request calls the chat model at most MAX_RETRIES times, each
\* call after the first follows a rate-limit error and a wait, the waits
\* being 2 s, 4 s and 8 s; another error is answered 500 with no further
\* call; three rate-limit errors are answered 429; the loop cannot go on
\* (every turn that does not answer raises attempt, which stays below
\* MAX_RETRIES while the loop runs) and an answer given is not replaced.
C28_RetryLoopBounded ==
    [][ \A p \in Procs :
          LET f == procs[p]  g == procs'[p] IN
          /\ g.op = "chat" =>
                /\ Len(modelPrompts') <= MAX_RETRIES
                /\ delays' = SubSeq(<< 2000, 4000, 8000 >>, 1, Len(delays'))
                /\ Len(modelPrompts') <= Len(delays') + 1
                /\ g.pc = "attempt" =>
                      attempt' < MAX_RETRIES /\ Len(modelPrompts') = Len(delays')
                /\ (g.pc = "done" /\ modelPrompts' # << >>) =>
                      /\ g.status \in {"200", "429", "500"}
                      /\ g.status = "429" <=> Len(delays') = MAX_RETRIES
                      /\ g.status # "429" => Len(modelPrompts') = Len(delays') + 1
                      /\ g.err = "model" <=> g.status = "500"
          /\ (f.op = "chat" /\ f.pc = "attempt" /\ g.pc = "attempt") =>
                attempt' = attempt + 1
          /\ (f.op = "chat" /\ f.pc = "done" /\ g.pc = "done") =>
                g.status = f.status ]_vars

\* three rate-limit errors: three calls, waits of 2, 4 and 8 s, answer 429
C28_Witness ==
    \E p \in Procs :
        /\ ChatAnswered(procs[p]) /\ procs[p].status = "429"
        /\ Len(modelPrompts) = 3
        /\ delays = << 2000, 4000, 8000 >>


(***************************************************************************)
(* scripts/importBook: main.  One run is one process: the module state of  *)
(* lib/vectorstore is fresh at its start, the files stay.  Every run       *)
(* imports the same file, of which processBookFile makes the same chunks.  *)
(*   mainPc   "off" before the first run, "loop" in the for loop, "stats"  *)
(*            in getVectorStats, "exited" after the process ended          *)
(*   runs     per run: the number of entries of the book index before and  *)
(*            after it, the counter, the exit code (-1 while it runs) and  *)
(*            the chunk whose storeBookChunk threw (0 when none did)       *)
(***************************************************************************)
MaxImport == 3   \* chunks of the imported file
MaxRuns   == 2   \* runs of the script
MaxBefore == 1   \* entries of the book index before the first run

\* chunk i of the file, as storeBookChunk stores it
ChunkEntry(i) == BookEntry("A", << "c", ToString(i) >>, 1)

BookFile(n) == [i \in 1..n |-> ChunkEntry(i)]

ChunkStored_CatchInLoop(f) == f.pc = "done" /\ f.status \in {"returned", "threw"}

\* `await storeBookChunk(...)` resolved: the loop goes on
ChunkStored(f) == f.pc = "done" /\ f.status = "returned"

\* the process ends with an exit code: its module state is gone
Exit(code, failedAt) ==
    /\ mainPc' = "exited"
    /\ exitCode' = code
    /\ runs' = [runs EXCEPT ![Len(runs)] =
                    [@ EXCEPT !.after = Len(disk["books"].items),
                              !.imported = imported,
                              !.code = code,
                              !.failedAt = failedAt]]
    /\ procs' = [p \in Procs |-> IdleFrame]
    /\ conversationIndex' = Null
    /\ bookIndex' = Null
    /\ UNCHANGED << disk, createCount, initOK, diverseVars, chatVars, fnVars,
                    chunks, imported >>

\* what main calls after `imported` chunks were stored: storeBookChunk for
\* the next chunk, or getVectorStats after the last
AfterChunk(p, file, n) ==
    IF n < Len(file)
    THEN [Call(p, "storeBookChunk") EXCEPT !.entry = file[n + 1]]
    ELSE Call(p, "getVectorStats")

\* the script starts; without its two arguments, or when processBookFile
\* throws, it exits with 1
ImportStart(p) ==
    /\ mainPc \in {"off", "exited"}
    /\ Len(runs) < MaxRuns
    /\ \E n \in 0..MaxImport, ok \in BOOLEAN :
        LET file == IF mainPc = "off" THEN BookFile(n) ELSE chunks
            run  == [before |-> Len(disk["books"].items), after |-> 0, imported |-> 0,
                     code |-> IF ok THEN -1 ELSE 1, failedAt |-> 0]
        IN  /\ chunks' = file
            /\ imported' = 0
            /\ runs' = Append(runs, IF ok THEN run
                                    ELSE [run EXCEPT !.after = run.before])
            /\ IF ok
               THEN /\ procs' = [procs EXCEPT ![p] = AfterChunk(p, file, 0)]
                    /\ mainPc' = IF file = << >> THEN "stats" ELSE "loop"
                    /\ exitCode' = 0
               ELSE /\ procs' = procs
                    /\ mainPc' = "exited"
                    /\ exitCode' = 1
    /\ UNCHANGED << indexVars, diverseVars, chatVars, fnVars >>

\* storeBookChunk resolved: imported++, then the next turn of the loop or
\* getVectorStats
ImportStored(p) ==
    /\ mainPc = "loop"
    /\ ChunkStored(procs[p])
    /\ imported' = imported + 1
    /\ procs' = [procs EXCEPT ![p] = AfterChunk(p, chunks, imported + 1)]
    /\ mainPc' = IF imported + 1 < Len(chunks) THEN "loop" ELSE "stats"
    /\ UNCHANGED << indexVars, diverseVars, chatVars, fnVars, chunks, exitCode, runs >>

\* getVectorStats: both listItems() resolve; vectra rejects when an index
\* does not exist
ImportStats(p) ==
    LET f == procs[p] IN
    /\ f.pc = "list"
    /\ procs' = [procs EXCEPT ![p] =
            IF \A n \in IndexNames : disk[n].created
            THEN [f EXCEPT !.pc = "done", !.status = "returned",
                           !.count = Len(disk["books"].items)]
            ELSE Thrown(f, "missing")]
    /\ UNCHANGED << indexVars, callerVars >>

\* the catch of main: process.exit(1)
ImportCatch(p) ==
    /\ mainPc \in {"loop", "stats"}
    /\ procs[p].pc = "done"
    /\ procs[p].status = "threw"
    /\ Exit(1, IF mainPc = "loop" THEN imported + 1 ELSE 0)

\* main returns: the process ends with code 0
ImportDone(p) ==
    /\ mainPc = "stats"
    /\ procs[p].pc = "done"
    /\ procs[p].status = "returned"
    /\ Exit(0, 0)

OldEntry == BookEntry("B", << "o", "l", "d" >>, 1)

InitImport ==
    /\ conversationIndex = Null
    /\ bookIndex = Null
    /\ \/ disk = FreshDisk
       \/ \E k \in 0..MaxBefore :
            disk = [FreshDisk EXCEPT !["books"] =
                        [created |-> TRUE, items |-> [i \in 1..k |-> OldEntry]]]
    /\ procs = [p \in Procs |-> IdleFrame]
    /\ createCount = [n \in IndexNames |-> IF disk[n].created THEN 1 ELSE 0]
    /\ initOK = FALSE
    /\ NoCaller

NextImport ==
    \/ ImportStart(Caller)
    \/ GetCheck(Caller)
    \/ GetIsCreated(Caller)
    \/ GetCreate(Caller)
    \/ GetThrows(Caller)
    \/ Embed(Caller)
    \/ EmbedThrows(Caller)
    \/ Insert(Caller)
    \/ IndexThrows(Caller)
    \/ ImportStored(Caller)
    \/ ImportStats(Caller)
    \/ ImportCatch(Caller)
    \/ ImportDone(Caller)

SpecImport == InitImport /\ [][NextImport]_vars

Ended(run) == run.code # -1

\* C12: a run in which storeBookChunk throws at chunk i stops there: it ends
\* with a non-zero exit code, with the chunks 1..i-1 added to the book
\* index and nothing else, and nothing is embedded or inserted after it; a
\* later run that stores all n chunks adds them after those, so that the
\* chunks 1..i-1 are in the index twice.
C12_ImportAbortsAndReruns ==
    LET items == disk["books"].items IN
    /\ \A r \in 1..Len(runs) :
          Ended(runs[r]) =>
              /\ runs[r].after = runs[r].before + runs[r].imported
              /\ \A j \in 1..runs[r].imported : items[runs[r].before + j] = chunks[j]
              /\ runs[r].failedAt > 0 =>
                    /\ runs[r].code # 0
                    /\ runs[r].imported = runs[r].failedAt - 1
    /\ \A r \in 1..(Len(runs) - 1) :
          ( /\ runs[r].failedAt > 0
            /\ Ended(runs[r + 1])
            /\ runs[r + 1].imported = Len(chunks) ) =>
              /\ runs[r + 1].before = runs[r].after
              /\ runs[r + 1].after = runs[r].before + (runs[r].failedAt - 1) + Len(chunks)
              /\ \A j \in 1..(runs[r].failedAt - 1) :
                    items[runs[r].before + j] = items[runs[r + 1].before + j]
    /\ mainPc = "exited" => \A p \in Procs : procs[p] = IdleFrame
    /\ mainPc = "loop" =>
          \A p \in Procs :
              procs[p].op = "storeBookChunk" => procs[p].entry = chunks[imported + 1]

C12_Witness ==
    /\ Len(runs) = 2
    /\ runs[1].failedAt = 2
    /\ runs[1].code = 1
    /\ runs[2].code = 0
    /\ Len(chunks) = 3
    /\ Len(disk["books"].items) = runs[1].before + 4


(***************************************************************************)
(* formatBookContext on its own, applied to the results of a search of a   *)
(* book index that holds chunks of the chunk size: prose, prose that has   *)
(* a phrase the filter looks for, reference pages, a page with an author   *)
(* citation, and a fragment.                                               *)
(*   arg   << "formatBookContext", results >> once it was applied          *)
(*   out   << the context it returned >>                                   *)
(***************************************************************************)
WordsPerChunk == 500

MaxFormat == 2   \* results handed to formatBookContext

\* n words, one space between two
Words(n) == [i \in 1..(2 * n - 1) |-> IF i % 2 = 1 THEN "a" ELSE " "]

Prose500 == Words(WordsPerChunk)

ReferencesChunk ==
    << "R", "e", "f", "e", "r", "e", "n", "c", "e", "s", "\n" >> \o Words(WordsPerChunk)

BibliographyChunk ==
    Words(WordsPerChunk - 1)
    \o << " ", "B", "I", "B", "L", "I", "O", "G", "R", "A", "P", "H", "Y" >>

PrisonProse ==
    Words(WordsPerChunk \div 2 - 1)
    \o << " ", "s", "i", "m", "u", "l", "a", "t", "e", "d", " ",
          "p", "r", "i", "s", "o", "n", " " >>
    \o Words(WordsPerChunk \div 2 - 1)

CitationPage ==
    Words(WordsPerChunk \div 2)
    \o << "\n", "S", "m", "i", "t", "h", ",", " ", "J", ".", " ", "A", ".", "\n" >>
    \o Words(WordsPerChunk \div 2)

FormatContents ==
    {Prose500, ReferencesChunk, BibliographyChunk, PrisonProse, CitationPage, Fragment}

FormatEntries == {BookEntry("A", c, sc) : c \in FormatContents, sc \in Scores}

\* what searchBookContent returns over an index of at most MaxFormat chunks
FormatInputs ==
    { searchBookContent(items, Len(items)) :
        items \in UNION { [1..n -> FormatEntries] : n \in 0..MaxFormat } }

FormatApply ==
    /\ arg = << >>
    /\ \E found \in FormatInputs :
        /\ arg' = << "formatBookContext", found >>
        /\ out' = << formatBookContext(found) >>
    /\ UNCHANGED << indexVars, procs, diverseVars, chatVars, importVars >>

NextFormat == FormatApply

SpecFormat == InitIndex /\ [][NextFormat]_vars

\* formatBookContext was applied
Formatted == arg # << >> /\ arg[1] = "formatBookContext"

\* the context ctx has a Source block with this content
Rendered(ctx, content) ==
    LET text == trim(content) IN
    \E i \in 1..Len(ctx) :
        /\ ctx[i] = "\n\nContent:\n"
        /\ i + Len(text) + 1 <= Len(ctx)
        /\ SubSeq(ctx, i + 1, i + Len(text)) = text
        /\ ctx[i + Len(text) + 1] = "\n"

\* the number of words of a text
WordCount(t) ==
    Cardinality({i \in 1..Len(t) :
        t[i] \notin WhiteSpace /\ (i = 1 \/ t[i - 1] \in WhiteSpace)})

\* the content has "references" or "bibliography" in some letter case
HasReferenceMarker(content) ==
    \/ includes(toLowerCase(content),
                << "r", "e", "f", "e", "r", "e", "n", "c", "e", "s" >>)
    \/ includes(toLowerCase(content),
                << "b", "i", "b", "l", "i", "o", "g", "r", "a", "p", "h", "y" >>)

\* C13: no chunk whose content has "references" or "bibliography", in any
\* letter case, is rendered as a Source block; when every candidate is
\* such a chunk the context is the empty string.
C13_ReferencePagesExcluded ==
    Formatted =>
        /\ \A i \in 1..Len(arg[2]) :
              HasReferenceMarker(arg[2][i].item.content) =>
                  ~Rendered(out[1], arg[2][i].item.content)
        /\ ( /\ arg[2] # << >>
             /\ \A i \in 1..Len(arg[2]) : HasReferenceMarker(arg[2][i].item.content) )
              => out[1] = << >>

C13_Witness ==
    /\ Formatted
    /\ Len(arg[2]) = 2
    /\ arg[2][1].item.content = ReferencesChunk
    /\ arg[2][2].item.content = Prose500
    /\ Rendered(out[1], Prose500)

\* the content has none of the exclusion markers the specification lists
MarkerFree(content) ==
    /\ ~HasReferenceMarker(content)
    /\ ~matchesCitation(content)
    /\ ~includes(toLowerCase(content), << "c", "o", "p", "y", "r", "i", "g", "h", "t" >>)
    /\ ~includes(content, << "©" >>)
    /\ pageNumbers(content) <= MaxPageNumbers
    /\ Len(content) >= MinContentLength

\* C14: every chunk of 500 words that has none of the listed exclusion
\* markers is rendered as a Source block, whatever its words are.
C14_OrdinaryProseRetained ==
    Formatted =>
        \A i \in 1..Len(arg[2]) :
            ( /\ WordCount(arg[2][i].item.content) = WordsPerChunk
              /\ MarkerFree(arg[2][i].item.content) )
                => Rendered(out[1], arg[2][i].item.content)

\* C25: no chunk whose content has a line starting with a citation of the
\* shape "Lastname, F. M.", or more than 3 occurrences of "Lastname, F.",
\* is rendered as a Source block, also when it has 200 characters or more
\* and no other exclusion applies.
C25_CitationPagesExcluded ==
    Formatted =>
        \A i \in 1..Len(arg[2]) :
            ( \/ matchesCitation(arg[2][i].item.content)
              \/ nameMatches(arg[2][i].item.content) > MaxNameMatches ) =>
                ~Rendered(out[1], arg[2][i].item.content)


\* ---------------------------------------------------------------------
\* analyze route: retrieval, deduplication and the reference list
\* ---------------------------------------------------------------------

MaxRawChunks == 9          \* chunks retrieveDiverseBookKnowledge may return
MaxRawConversations == 8   \* results searchConversations may return

ConversationLimit == 5
ChunkLimit == 6
ReferenceLimit == 10
HighQuality == 50
LowQuality == 35
MinHighQuality == 5

\* a number inside a template literal
NumberText(n) == << "0", "1", "2", "3", "4", "5", "6", "7", "8", "9" >>[n + 1]

\* pageNumber 0 stands for an absent page, chapterTitle "" for an absent chapter
formatBookSourceLabel(item) ==
    << item.bookTitle >>
    \o (IF item.chapterTitle # "" THEN << " - ", item.chapterTitle >> ELSE << >>)
    \o (IF item.pageNumber # 0 THEN << " Page ", NumberText(item.pageNumber) >> ELSE << >>)

bookChunkKey(chunk) ==
    << chunk.item.bookTitle, "::", chunk.item.chapterTitle, "::",
       IF chunk.item.pageNumber # 0 THEN NumberText(chunk.item.pageNumber) ELSE "" >>

conversationKey(result) == result.item.conversationId

\* a Map as the sequence of its entries in insertion order
MapIndex(map, key) ==
    IF \E j \in 1..Len(map) : map[j].key = key
    THEN CHOOSE j \in 1..Len(map) : map[j].key = key
    ELSE 0

MapValues(map) == [j \in 1..Len(map) |-> map[j].value]

SetBest_KeepFirst(map, key, value) ==
    IF MapIndex(map, key) = 0
    THEN Append(map, [key |-> key, value |-> value])
    ELSE map

\* if (!existing || value.score > existing.score) map.set(key, value)
SetBest(map, key, value) ==
    LET j == MapIndex(map, key) IN
    IF j = 0 THEN Append(map, [key |-> key, value |-> value])
    ELSE IF value.score > map[j].value.score
         THEN [map EXCEPT ![j].value = value]
         ELSE map

RECURSIVE bookMap(_)
bookMap(list) ==
    IF list = << >> THEN << >>
    ELSE SetBest(bookMap(SubSeq(list, 1, Len(list) - 1)),
                 bookChunkKey(list[Len(list)]), list[Len(list)])

dedupeBookChunksBySource(list) == SortByScore(MapValues(bookMap(list)))

RECURSIVE conversationMap(_)
conversationMap(list) ==
    IF list = << >> THEN << >>
    ELSE SetBest(conversationMap(SubSeq(list, 1, Len(list) - 1)),
                 conversationKey(list[Len(list)]), list[Len(list)])

dedupeSimilarConversationsById(list) == SortByScore(MapValues(conversationMap(list)))

RECURSIVE bestReferenceByKey(_)
bestReferenceByKey(list) ==
    IF list = << >> THEN << >>
    ELSE SetBest(bestReferenceByKey(SubSeq(list, 1, Len(list) - 1)),
                 list[Len(list)].key, list[Len(list)])

conversationReference(result) ==
    [key   |-> << "conv::", result.item.conversationId >>,
     text  |-> << "Similar conversation (", result.score, "%): ",
                  IF result.item.scenario # "" THEN result.item.scenario ELSE "unknown" >>,
     score |-> result.score]

bookReference(result) ==
    [key   |-> << "book::" >> \o formatBookSourceLabel(result.item),
     text  |-> << "Book (", result.score, "%): " >> \o formatBookSourceLabel(result.item),
     score |-> result.score]

referenceEntries(similar, knowledge) ==
    [i \in 1..Len(similar) |-> conversationReference(similar[i])]
    \o [i \in 1..Len(knowledge) |-> bookReference(knowledge[i])]

\* the conversation being analyzed
OwnId == "self"

NotOwn(result) == result.item.conversationId # OwnId

AboveHigh(chunk) == chunk.score > HighQuality

AboveLow(chunk) == chunk.score > LowQuality

qualityChunks(rawChunks) ==
    IF Len(SelectSeq(rawChunks, AboveHigh)) < MinHighQuality
    THEN SelectSeq(rawChunks, AboveLow)
    ELSE SelectSeq(rawChunks, AboveHigh)

\* the retrieval part of the handler; a retrieval that throws leaves its list empty
analyzeRetrieval(conversationsFound, chunksFound) ==
    LET conversationInput == IF conversationsFound.ok
                             THEN SelectSeq(conversationsFound.value, NotOwn) ELSE << >>
        similarConversations == Take(dedupeSimilarConversationsById(conversationInput),
                                     ConversationLimit)
        chunkInput == IF chunksFound.ok THEN qualityChunks(chunksFound.value) ELSE << >>
        knowledgeChunks == Take(dedupeBookChunksBySource(chunkInput), ChunkLimit)
        entries == referenceEntries(similarConversations, knowledgeChunks)
        references == Take(SortByScore(MapValues(bestReferenceByKey(entries))),
                           ReferenceLimit)
    IN  [conversationInput    |-> conversationInput,
         similarConversations |-> similarConversations,
         chunkInput           |-> chunkInput,
         knowledgeChunks      |-> knowledgeChunks,
         referenceEntries     |-> entries,
         references           |-> references,
         referenceSources     |-> [i \in 1..Len(references) |-> references[i].text]]

\* the results the two retrievals may hand to the handler
ConversationIds == << "c1", "c2", "c3", "c1", "c4", "c5", "self", "c6", "c3", "c7" >>

ConversationScores == << 95, 90, 81, 77, 70, 64, 64, 50, 45, 40 >>

ConversationAt(i) ==
    [item  |-> [conversationId |-> ConversationIds[i],
                scenario |-> IF i % 3 = 0 THEN "" ELSE "interview"],
     score |-> ConversationScores[i]]

ChunkScores == << 64, 55, 90, 40, 70, 58, 55, 61, 81, 30 >>

ChunkAt(i) ==
    [item  |-> [bookTitle    |-> IF i % 2 = 1 THEN "A" ELSE "B",
                chapterTitle |-> IF (i \div 2) % 2 = 1 THEN "Intro" ELSE "",
                pageNumber   |-> (i \div 4) % 2],
     score |-> ChunkScores[i]]

\* the members of a set of positions, in increasing order
RECURSIVE Ascending(_)
Ascending(S) ==
    IF S = {} THEN << >>
    ELSE LET m == CHOOSE x \in S : \A y \in S : y <= x
         IN  Append(Ascending(S \ {m}), m)

\* searchConversations answers in descending score order
ConversationInputs ==
    { [ok |-> TRUE, value |-> [i \in 1..(b - a + 1) |-> ConversationAt(a + i - 1)]] :
        a \in 1..MaxRawConversations, b \in 0..MaxRawConversations }
    \cup { [ok |-> FALSE, value |-> << >>] }

\* retrieveDiverseBookKnowledge answers in rotation order, not in score order
ChunkInputs ==
    UNION { { [ok |-> TRUE, value |-> [i \in 1..Len(Ascending(S)) |-> ChunkAt(Ascending(S)[i])]],
              [ok |-> TRUE, value |-> Reverse([i \in 1..Len(Ascending(S)) |-> ChunkAt(Ascending(S)[i])])] } :
            S \in SUBSET (1..MaxRawChunks) }
    \cup { [ok |-> FALSE, value |-> << >>] }

AnalyzeApply ==
    /\ arg = << >>
    /\ \E conversationsFound \in ConversationInputs, chunksFound \in ChunkInputs :
        /\ arg' = << "analyze", conversationsFound, chunksFound >>
        /\ out' = << analyzeRetrieval(conversationsFound, chunksFound) >>
    /\ UNCHANGED << indexVars, procs, diverseVars, chatVars, importVars >>

NextAnalyze == AnalyzeApply

SpecAnalyze == InitIndex /\ [][NextAnalyze]_vars

\* the retrieval part of the analyze handler has run
Analyzed == arg # << >> /\ arg[1] = "analyze"

\* the keys of a list
Keys(list, Key(_)) == {Key(list[i]) : i \in 1..Len(list)}

\* kept is the deduplication of list by Key, sorted and then cut to limit
Deduplicated(kept, list, Key(_), limit) ==
    /\ \A i, j \in 1..Len(kept) : Key(kept[i]) = Key(kept[j]) => i = j
    /\ \A i \in 1..Len(kept) :
        /\ kept[i] \in Range(list)
        /\ \A e \in Range(list) : Key(e) = Key(kept[i]) => e.score <= kept[i].score
    /\ IsDescending(kept)
    /\ Len(kept) = Min(limit, Cardinality(Keys(list, Key)))
    /\ \A e \in Range(list) :
        Key(e) \notin Keys(kept, Key) =>
            \A i \in 1..Len(kept) : kept[i].score >= e.score

referenceKey(entry) == entry.key

\* C15: the deduplicated book chunks, similar conversations and merged
\* references hold exactly one entry per source key, that entry has the
\* highest score of its key, the lists are sorted by score descending, and
\* the cut to 6 chunks, 5 conversations and 10 references drops only the
\* lowest-scored keys (it is applied after the sort).
C15_DedupKeepsBestSortedThenCut ==
    Analyzed =>
        /\ Deduplicated(out[1].knowledgeChunks, out[1].chunkInput,
                        bookChunkKey, ChunkLimit)
        /\ Deduplicated(out[1].similarConversations, out[1].conversationInput,
                        conversationKey, ConversationLimit)
        /\ Deduplicated(out[1].references, out[1].referenceEntries,
                        referenceKey, ReferenceLimit)

\* one key retrieved with 64 and with 81 is kept once with 81, while more
\* keys than each limit were retrieved
C15_Witness ==
    /\ Analyzed
    /\ \E e, f \in Range(out[1].chunkInput) :
        /\ bookChunkKey(e) = bookChunkKey(f) /\ e.score = 64 /\ f.score = 81
        /\ f \in Range(out[1].knowledgeChunks)
    /\ Cardinality(Keys(out[1].chunkInput, bookChunkKey)) > ChunkLimit
    /\ Cardinality(Keys(out[1].conversationInput, conversationKey)) > ConversationLimit
    /\ Len(out[1].referenceEntries) > ReferenceLimit
    /\ Len(out[1].references) = ReferenceLimit


\* ---------------------------------------------------------------------
\* lib/bookProcessor: chunkText.  A text is a sequence of tokens: a word,
\* a blank or one line break.
\* ---------------------------------------------------------------------

MaxParagraphs == 3   \* paragraphs of a document

Overlap == 50

ParagraphSizes == {40, 100, 450, 600}

\* the i-th word of the j-th paragraph
Word(j, i) == ToString(1000 * j + i)

ParagraphWords(j, n) == [i \in 1..n |-> Word(j, i)]

\* Array.prototype.join(' ')
JoinWords(ws) ==
    [i \in 1..(IF ws = << >> THEN 0 ELSE 2 * Len(ws) - 1) |->
        IF i % 2 = 1 THEN ws[(i + 1) \div 2] ELSE " "]

\* a line break that belongs to a run of two or more: /\n\n+/
InBreak(text, i) ==
    /\ text[i] = "\n"
    /\ \/ (i > 1 /\ text[i - 1] = "\n")
       \/ (i < Len(text) /\ text[i + 1] = "\n")

\* the pieces between the breaks, in order
ParagraphStarts(text) ==
    {i \in 1..Len(text) : ~InBreak(text, i) /\ (i = 1 \/ InBreak(text, i - 1))}

ParagraphFrom(text, s) ==
    SubSeq(text, s,
           (CHOOSE j \in s..(Len(text) + 1) :
                /\ j = Len(text) + 1 \/ InBreak(text, j)
                /\ \A k \in s..(j - 1) : ~InBreak(text, k)) - 1)

NonEmpty(t) == Len(t) > 0

\* text.split(/\n\n+/).map(trim).filter(length > 0)
splitParagraphs(text) ==
    LET starts == Ascending(ParagraphStarts(text))
    IN  SelectSeq([i \in 1..Len(starts) |-> trim(ParagraphFrom(text, starts[i]))],
                  NonEmpty)

IsWordToken(t) == t \notin WhiteSpace

\* paragraph.split(/\s+/), of a trimmed paragraph
splitWords(paragraph) == SelectSeq(paragraph, IsWordToken)

\* Array.prototype.slice(-n): slice(-0) is slice(0)
SliceLast(ws, n) ==
    IF n = 0 \/ n >= Len(ws) THEN ws ELSE SubSeq(ws, Len(ws) - n + 1, Len(ws))

\* the loop over the paragraphs
RECURSIVE chunkLoop(_, _, _)
chunkLoop(paragraphs, chunkSize, overlap) ==
    IF paragraphs = << >>
    THEN [chunks |-> << >>, currentChunk |-> << >>, currentWordCount |-> 0]
    ELSE LET st        == chunkLoop(SubSeq(paragraphs, 1, Len(paragraphs) - 1),
                                    chunkSize, overlap)
             paragraph == paragraphs[Len(paragraphs)]
             wordCount == Len(splitWords(paragraph))
         IN  IF st.currentWordCount + wordCount > chunkSize /\ Len(st.currentChunk) > 0
             THEN LET overlapWords  == Min(overlap, st.currentWordCount)
                      lastParagraph == st.currentChunk[Len(st.currentChunk)]
                      overlapText   == JoinWords(SliceLast(splitWords(lastParagraph),
                                                           overlapWords))
                  IN  [chunks |-> Append(st.chunks,
                                    [content |-> Join(st.currentChunk, << "\n", "\n" >>)]),
                       currentChunk |-> << overlapText, paragraph >>,
                       currentWordCount |-> overlapWords + wordCount]
             ELSE [chunks |-> st.chunks,
                   currentChunk |-> Append(st.currentChunk, paragraph),
                   currentWordCount |-> st.currentWordCount + wordCount]

chunkText_NoRemainder(text, chunkSize, overlap) ==
    chunkLoop(splitParagraphs(text), chunkSize, overlap).chunks

chunkText(text, chunkSize, overlap) ==
    LET st == chunkLoop(splitParagraphs(text), chunkSize, overlap)
    IN  IF Len(st.currentChunk) > 0
        THEN Append(st.chunks, [content |-> Join(st.currentChunk, << "\n", "\n" >>)])
        ELSE st.chunks

\* a document of paragraphs with the given word counts; a loose one has
\* longer breaks, blanks around its paragraphs and a blank first paragraph
Document(sizes, loose) ==
    LET plain == [j \in 1..Len(sizes) |-> JoinWords(ParagraphWords(j, sizes[j]))]
    IN  IF loose
        THEN << " ", "\n", "\n" >>
             \o Join([j \in 1..Len(sizes) |-> << " " >> \o plain[j] \o << " " >>],
                     << "\n", "\n", "\n" >>)
        ELSE Join(plain, << "\n", "\n" >>)

ChunkTexts ==
    { Document(sizes, loose) :
        sizes \in UNION { [1..n -> ParagraphSizes] : n \in 0..MaxParagraphs },
        loose \in BOOLEAN }

\* processBookFile calls chunkText with its default chunkSize and overlap
ChunkApply ==
    /\ arg = << >>
    /\ \E text \in ChunkTexts :
        /\ arg' = << "chunkText", text >>
        /\ out' = << chunkText(text, WordsPerChunk, Overlap) >>
    /\ UNCHANGED << indexVars, procs, diverseVars, chatVars, importVars >>

NextChunk == ChunkApply

SpecChunk == InitIndex /\ [][NextChunk]_vars

\* chunkText was applied to the document of these paragraph sizes
Chunked(sizes) ==
    arg # << >> /\ arg[1] = "chunkText" /\ arg[2] = Document(sizes, FALSE)

\* C17: chunkText of three paragraphs of 600, 600 and 100 words, with
\* chunkSize 500 and overlap 50, yields exactly 2 chunks: the first is
\* paragraph 1 alone, the second is the last 50 words of paragraph 1
\* followed by paragraph 2 and paragraph 3.
C17_ThreeParagraphsTwoChunks ==
    Chunked(<< 600, 600, 100 >>) =>
        /\ Len(out[1]) = 2
        /\ out[1][1].content = JoinWords(ParagraphWords(1, 600))
        /\ out[1][2].content =
              Join(<< JoinWords(SliceLast(ParagraphWords(1, 600), Overlap)),
                      JoinWords(ParagraphWords(2, 600)),
                      JoinWords(ParagraphWords(3, 100)) >>, << "\n", "\n" >>)


\* ---------------------------------------------------------------------
\* chunkText called with any chunkSize and overlap, over short paragraphs
\* ---------------------------------------------------------------------

MaxWords     == 3   \* words of a paragraph
MaxChunkSize == 4   \* the chunkSize argument
MaxOverlap   == 2   \* the overlap argument

ShortTexts ==
    { Document(sizes, loose) :
        sizes \in UNION { [1..n -> 1..MaxWords] : n \in 0..MaxParagraphs },
        loose \in BOOLEAN }

ChunkCall ==
    /\ arg = << >>
    /\ \E text \in ShortTexts, chunkSize \in 1..MaxChunkSize, overlap \in 0..MaxOverlap :
        /\ arg' = << "chunkText", text, chunkSize, overlap >>
        /\ out' = << chunkText(text, chunkSize, overlap) >>
    /\ UNCHANGED << indexVars, procs, diverseVars, chatVars, importVars >>

NextChunkCall == ChunkCall

SpecChunkCall == InitIndex /\ [][NextChunkCall]_vars

\* chunkText was called with explicit arguments
ChunkCalled == arg # << >> /\ arg[1] = "chunkText" /\ Len(arg) = 4

\* the paragraphs a chunk's content is joined from; the first one of a
\* chunk after the first is the overlap text
Pieces(content) == splitParagraphs(content)

\* the full paragraphs of the c-th chunk
FullPieces(list, c) ==
    IF c = 1 THEN Pieces(list[c].content) ELSE Tail(Pieces(list[c].content))

\* the number of words of a list of paragraphs
RECURSIVE WordsIn(_)
WordsIn(parts) ==
    IF parts = << >> THEN 0
    ELSE Len(splitWords(Head(parts))) + WordsIn(Tail(parts))

RECURSIVE Flatten(_)
Flatten(lists) == IF lists = << >> THEN << >> ELSE Head(lists) \o Flatten(Tail(lists))

\* the words of a content before its first paragraph break
CarriedWords(content) ==
    splitWords(SubSeq(content, 1,
        (CHOOSE j \in 1..(Len(content) + 1) :
            /\ j = Len(content) + 1 \/ InBreak(content, j)
            /\ \A k \in 1..(j - 1) : ~InBreak(content, k)) - 1))

\* C21: for adjacent chunks i and i+1, the first paragraph of chunk i+1 is
\* the suffix of the last paragraph of chunk i that has exactly
\* min(overlap, words of that paragraph) words; with overlap 0 nothing is
\* carried over.
C21_OverlapIsSuffix ==
    ChunkCalled =>
        \A i \in 1..(Len(out[1]) - 1) :
            LET last == splitWords(Pieces(out[1][i].content)[Len(Pieces(out[1][i].content))])
                m    == Min(arg[4], Len(last))
            IN  CarriedWords(out[1][i + 1].content)
                  = SubSeq(last, Len(last) - m + 1, Len(last))

\* C22: the full paragraphs of the chunks, in chunk order, are the
\* non-empty paragraphs of the text, each whole and once; no chunk is
\* empty; a paragraph longer than chunkSize is the last full paragraph of
\* its chunk.
C22_ParagraphsKeptWhole ==
    ChunkCalled =>
        /\ Flatten([c \in 1..Len(out[1]) |-> FullPieces(out[1], c)])
             = splitParagraphs(arg[2])
        /\ \A c \in 1..Len(out[1]) :
            /\ Len(out[1][c].content) > 0
            /\ \A j \in 1..Len(FullPieces(out[1], c)) :
                 Len(splitWords(FullPieces(out[1], c)[j])) > arg[3]
                    => j = Len(FullPieces(out[1], c))

\* three paragraphs, the second longer than chunkSize, in three chunks
C22_Witness ==
    /\ ChunkCalled
    /\ arg[3] = 2 /\ arg[4] = 1
    /\ Len(splitParagraphs(arg[2])) = 3
    /\ Len(splitWords(splitParagraphs(arg[2])[2])) = 3
    /\ Len(out[1]) = 3
    /\ FullPieces(out[1], 2) = << splitParagraphs(arg[2])[2] >>

\* C23: a chunk of two or more full paragraphs has at most chunkSize
\* words, and every chunk has at most chunkSize + overlap + the words of
\* one of its paragraphs.
C23_ChunkWordBound ==
    ChunkCalled =>
        \A c \in 1..Len(out[1]) :
            LET parts == Pieces(out[1][c].content)
                full  == FullPieces(out[1], c)
            IN  /\ Len(full) >= 2 => WordsIn(parts) <= arg[3]
                /\ \E j \in 1..Len(full) :
                     WordsIn(parts) <= arg[3] + arg[4] + Len(splitWords(full[j]))

\* C30: with an overlap of one word or more, after every paragraph of the
\* loop currentWordCount is the number of words held in currentChunk, also
\* when the closed chunk's last paragraph is shorter than the overlap.
C30_CounterMatchesChunk ==
    (ChunkCalled /\ arg[4] >= 1) =>
        \A n \in 0..Len(splitParagraphs(arg[2])) :
            LET st == chunkLoop(SubSeq(splitParagraphs(arg[2]), 1, n), arg[3], arg[4])
            IN  st.currentWordCount = WordsIn(st.currentChunk)


\* ---------------------------------------------------------------------
\* lib/bookProcessor: detectChapters and processBookFile, on the text read
\* from the file
\* ---------------------------------------------------------------------

MaxParts == 4   \* paragraphs and headings of a book file

ChapterWords == {"Chapter", "CHAPTER", "chapter"}

DigitWords == {ToString(k) : k \in 0..9}

RomanWords == {"I", "II", "III", "IV", "V", "VI", "i", "ii", "iii", "iv", "v", "vi"}

\* the end of the line that starts at position p
LineEnd(text, p) ==
    (CHOOSE j \in p..(Len(text) + 1) :
        /\ j = Len(text) + 1 \/ text[j] = "\n"
        /\ \A k \in p..(j - 1) : text[k] # "\n") - 1

\* the index of the line that holds position p: text.split('\n')
LineOf(text, p) == Cardinality({q \in 1..(p - 1) : text[q] = "\n"})

\* /^Chapter\s+\d+/i or /^CHAPTER\s+[IVXLCDM]+/i on a trimmed line
IsChapterLine(trimmed) ==
    /\ Len(trimmed) >= 3
    /\ trimmed[1] \in ChapterWords
    /\ trimmed[2] \in WhiteSpace
    /\ trimmed[Skip(trimmed, 2, WhiteSpace)] \in DigitWords \cup RomanWords

\* the positions at which a chapter line starts
ChapterStarts(text) ==
    {p \in 1..Len(text) :
        /\ p = 1 \/ text[p - 1] = "\n"
        /\ text[p] # "\n"
        /\ IsChapterLine(trim(SubSeq(text, p, LineEnd(text, p))))}

detectChapters(text) ==
    LET starts == Ascending(ChapterStarts(text))
    IN  [i \in 1..Len(starts) |->
            [title      |-> trim(SubSeq(text, starts[i], LineEnd(text, starts[i]))),
             startIndex |-> LineOf(text, starts[i])]]

\* .replace(/\r\n/g, '\n').replace(/\n{3,}/g, '\n\n').trim()
DropReturns(text) ==
    SelectSeq([i \in 1..Len(text) |->
                  IF text[i] = "\r" /\ i < Len(text) /\ text[i + 1] = "\n"
                  THEN "" ELSE text[i]],
              NonEmpty)

SqueezeBreaks(text) ==
    SelectSeq([i \in 1..Len(text) |->
                  IF i > 2 /\ text[i] = "\n" /\ text[i - 1] = "\n" /\ text[i - 2] = "\n"
                  THEN "" ELSE text[i]],
              NonEmpty)

cleanText(text) == trim(SqueezeBreaks(DropReturns(text)))

\* chapters.find((ch, chIndex) => !nextChapter || index < nextChapter.startIndex),
\* index being the position of the chunk in the chunk list, from 0
chapterInfo(chapters, index) ==
    IF chapters = << >> THEN 0
    ELSE CHOOSE i \in 1..Len(chapters) :
            /\ i = Len(chapters) \/ index < chapters[i + 1].startIndex
            /\ \A j \in 1..(i - 1) : ~(index < chapters[j + 1].startIndex)

\* no chapterTitle is the empty title
processBookFile(fileText, bookTitle) ==
    LET text     == cleanText(fileText)
        list     == chunkText(text, WordsPerChunk, Overlap)
        chapters == detectChapters(text)
    IN  [c \in 1..Len(list) |->
            [content      |-> list[c].content,
             bookTitle    |-> bookTitle,
             chapterTitle |-> IF chapterInfo(chapters, c - 1) = 0 THEN << >>
                              ELSE chapters[chapterInfo(chapters, c - 1)].title]]

\* the j-th part of a book file: a heading (size 0) or a paragraph
Heading(j) ==
    IF j % 2 = 1 THEN << "Chapter", " ", ToString(j) >>
    ELSE << "CHAPTER", " ", << "I", "II", "III", "IV", "V", "VI" >>[j] >>

Part(j, size) == IF size = 0 THEN Heading(j) ELSE JoinWords(ParagraphWords(j, size))

PartSizes == {0, 300, 600}

\* a loose file has Windows line ends, three of them between its parts, and
\* blanks around the parts
BookFileText(sizes, loose) ==
    IF loose
    THEN << " " >>
         \o Join([j \in 1..Len(sizes) |-> Part(j, sizes[j]) \o << " " >>],
                 << "\r", "\n", "\r", "\n", "\r", "\n" >>)
    ELSE Join([j \in 1..Len(sizes) |-> Part(j, sizes[j])], << "\n", "\n" >>)

BookFileTexts ==
    { BookFileText(sizes, loose) :
        sizes \in UNION { [1..n -> PartSizes] : n \in 0..MaxParts },
        loose \in BOOLEAN }

ProcessApply ==
    /\ arg = << >>
    /\ \E fileText \in BookFileTexts :
        /\ arg' = << "processBookFile", fileText >>
        /\ out' = << processBookFile(fileText, "A") >>
    /\ UNCHANGED << indexVars, procs, diverseVars, chatVars, importVars >>

NextProcess == ProcessApply

SpecProcess == InitIndex /\ [][NextProcess]_vars

Processed == arg # << >> /\ arg[1] = "processBookFile"

\* the line of the cleaned text on which the c-th chunk starts: the line of
\* its first full paragraph
ChunkLine(text, list, c) ==
    LET first == FullPieces(list, c)[1]
        p     == CHOOSE q \in 1..Len(text) : text[q] = first[Len(first)]
    IN  LineOf(text, p)

\* C24: each chunk has the title of the last chapter heading at or before
\* the line on which the chunk starts, and no title when no heading is at
\* or before that line (so none at all when no heading was detected).
C24_ChapterOfChunk ==
    Processed =>
        LET text     == cleanText(arg[2])
            chapters == detectChapters(text)
        IN  \A c \in 1..Len(out[1]) :
                LET line   == ChunkLine(text, out[1], c)
                    before == {i \in 1..Len(chapters) : chapters[i].startIndex <= line}
                IN  IF before = {} THEN out[1][c].chapterTitle = << >>
                    ELSE out[1][c].chapterTitle
                           = chapters[CHOOSE i \in before : \A j \in before : j <= i].title


\* ---------------------------------------------------------------------
\* lib/rate-limit on its own: calls of checkRateLimit at non-decreasing
\* times.  out is the log of the calls made: the time of each call and
\* what it answered.
\* ---------------------------------------------------------------------

MaxCalls == 7   \* calls of checkRateLimit

\* the milliseconds between one call and the next
RateSteps == {0, 1, WINDOW_MS - 1, WINDOW_MS}

\* checkRateLimit is called d ms after the previous call
CallAfter(d) ==
    /\ Len(out) < MaxCalls
    /\ now' = now + d
    /\ LET rl == checkRateLimit(requests, now + d) IN
        /\ requests' = rl.requests
        /\ out' = Append(out, [t |-> now + d, allowed |-> rl.allowed,
                               retryAfterMs |-> rl.retryAfterMs])
    /\ arg' = << "checkRateLimit" >>
    /\ UNCHANGED << indexVars, procs, diverseVars, importVars, body, systemPrompt, rag,
                    attempt, response, basePrompt, modelPrompts, delays >>

\* the next call comes any time later
RateCall ==
    /\ Len(out) < MaxCalls
    /\ \E d \in RateSteps : CallAfter(d)

\* a denied caller calls again after retryAfterMs
RateRetry ==
    /\ out # << >>
    /\ ~out[Len(out)].allowed
    /\ CallAfter(out[Len(out)].retryAfterMs)

\* a denied client calls again after the seconds of the Retry-After header
RateRetryHeader ==
    /\ out # << >>
    /\ ~out[Len(out)].allowed
    /\ CallAfter(CeilSeconds(out[Len(out)].retryAfterMs) * 1000)

NextRate == RateCall \/ RateRetry \/ RateRetryHeader

SpecRate == InitIndex /\ [][NextRate]_vars

\* the calls of the log that were allowed in the 60,000 ms from time t on
AllowedFrom(log, t) ==
    {j \in 1..Len(log) : log[j].allowed /\ t <= log[j].t /\ log[j].t <= t + WINDOW_MS}

\* C26: at most RPM_LIMIT calls are allowed in any window of WINDOW_MS; a
\* denied call leaves the stored list as it is apart from the expired
\* entries, and an allowed call appends its own time to it and nothing
\* else.
C26_AtMostLimitPerWindow ==
    [][ /\ \A i \in 1..Len(out') : Cardinality(AllowedFrom(out', out'[i].t)) <= RPM_LIMIT
        /\ Len(out') = Len(out) + 1 =>
             LET kept == SelectSeq(requests, LAMBDA x : x >= now' - WINDOW_MS)
             IN  /\ out'[Len(out')].t = now'
                 /\ requests' = IF out'[Len(out')].allowed
                                THEN Append(kept, now') ELSE kept ]_vars

\* five calls allowed, then one denied, then one allowed once the five
\* have left the window
C26_Witness ==
    /\ Len(out) = 7
    /\ \A i \in 1..5 : out[i].allowed
    /\ ~out[6].allowed
    /\ out[7].allowed
    /\ requests = << out[7].t >>

\* C27: a denied call answers a strictly positive retryAfterMs, and the
\* call made exactly retryAfterMs later, with no call in between, is
\* allowed.
C27_RetryAfterIsEnough ==
    \A i \in 1..Len(out) :
        ~out[i].allowed =>
            /\ out[i].retryAfterMs > 0
            /\ (i < Len(out) /\ out[i + 1].t = out[i].t + out[i].retryAfterMs)
                  => out[i + 1].allowed

====
